---- MODULE Spec2Model ----
(***************************************************************************)
(* A model of the edit orchestration pipeline of the GitHub AI editor:     *)
(* RepositoryManager (src/src/repository_manager.py), the request handlers *)
(* of src/app.py and the AI collaborator's interface (src/src/ai_editor.py)*)
(*                                                                         *)
(* Spec            one call of RepositoryManager.execute_edits on a working*)
(*                 copy, one step per instruction of the plan.             *)
(* SpecCache       calls of analyze_repository and cleanup, one at a time. *)
(* SpecConcurrent  request threads that share the RepositoryManager of     *)
(*                 app.py: analyze_repository, work, cleanup.              *)
(* SpecPlan, SpecRequest: one call of plan_edits; one HTTP request.        *)
(* SpecDetect, SpecCompare, SpecParse, SpecBranch, SpecCreateBranch,       *)
(* SpecRetry, SpecPaths: the helpers detect_language, compare_files,       *)
(* parse_repo_url, generate_branch_name, create_branch, retry_operation,   *)
(* and the file paths execute_edits resolves.                              *)
(***************************************************************************)
EXTENDS Integers, Sequences, FiniteSets, TLC

VARIABLES
    pc,                  \* position of the execute_edits call
    fs,                  \* the working copy: path -> content, or Absent
    plan,                \* EditPlan.instructions, as handed to execute_edits
    sorted_instructions, \* the local list of execute_edits (indices into plan)
    pos,                 \* number of instructions the for loop has consumed
    changes,             \* local list `changes`
    errors,              \* local list `errors`
    warnings,            \* local list `warnings`
    result,              \* the EditResult returned, NoResult before the return
    attempted,           \* history: what each loop iteration did, in order
    edit_calls,          \* history: the instructions AIEditor.edit_file was called for
    validations,         \* history: what AIEditor.validate_edit returned, per call
    context_cache,       \* RepositoryManager.context_cache: cache key -> context
    temp_dirs,           \* the directories under temp/repos that exist
    mkdtemp_count,       \* number of directories tempfile.mkdtemp has made
    service_calls,       \* history: URL parses, metadata fetches, clones, scans
    builds,              \* history: url -> number of contexts built for it
    returned_for,        \* history: url -> the contexts analyze_repository returned
    last_call,           \* history: the latest call of the manager and its outcome
    ncalls,              \* number of calls of the manager so far
    threads,             \* the request threads: position, url, context held
    planner,             \* one call of plan_edits: position, inputs, outcome
    request,             \* the HTTP request being served
    config,              \* the configuration app.py reads
    handler,             \* the request handler: position and what it holds
    response,            \* the response sent, NoResponseYet before
    call_log,            \* history: the calls the handler has made, in order
    detector,            \* one call of detect_language: arguments and result
    comparer,            \* compare_files called on two contents, in both orders
    url_parser,          \* one call of parse_repo_url: argument and outcome
    branch_namer,        \* the clock and the calls of generate_branch_name so far
    branch_creator,      \* one call of GitHubClient.create_branch and the remote refs
    retrier,             \* one call of retry_operation: its arguments and attempts
    path_writer          \* the files of the disk and what execute_edits did to them

executor_vars == <<pc, fs, plan, sorted_instructions, pos, changes, errors, warnings,
                   result, attempted, edit_calls, validations>>
cache_vars == <<context_cache, temp_dirs, mkdtemp_count, service_calls, builds,
                returned_for, last_call, ncalls>>
request_vars == <<request, config, handler, response, call_log>>
helper_vars == <<detector, comparer, url_parser, branch_namer>>
client_vars == <<branch_creator, retrier, path_writer>>
flow_vars == <<planner, request_vars, helper_vars, client_vars>>
manager_vars == <<cache_vars, threads, flow_vars>>
vars == <<executor_vars, manager_vars>>

(***************************************************************************)
(* Bounds of the model and the data the inputs are drawn from.             *)
(***************************************************************************)
MaxPlan == 3

Paths == {"a.py", "b.md"}
Absent == "<absent>"
OriginalContent == "c0"
GeneratedContents == {"g1"}
\* priority: int = 1  # 1-5; three of the values
Priorities == {1, 2, 3}
DefaultPriority == 1
NoResult == [none |-> TRUE]

\* EditInstruction.change_type is a free string: the four documented kinds
\* and one the executor has no branch for.
ChangeTypes == {"modify", "create", "delete", "rename", "move"}

\* EditInstruction: file_path, change_type, priority (description and
\* context only feed the prompt of the AI collaborator).
EditInstruction == [file_path : Paths, change_type : ChangeTypes,
                    priority : Priorities]

\* The plans the planner is taken to return: plans that prioritise their
\* instructions (any priorities; the three kinds that act on a file, on one
\* target file), and plans whose instructions carry no priority and get the
\* default, instr.get("priority", 1) (any kind, any target file).
PrioritisedInstructions ==
    {i \in EditInstruction : /\ i.file_path = "a.py"
                             /\ i.change_type \in {"modify", "create", "delete"}}
DefaultInstructions == {i \in EditInstruction : i.priority = DefaultPriority}

RECURSIVE SeqsUpTo(_, _)
SeqsUpTo(S, n) ==
    IF n = 0 THEN {<<>>}
    ELSE LET shorter == SeqsUpTo(S, n - 1)
         IN  shorter \cup {Append(s, x) : s \in {t \in shorter : Len(t) = n - 1}, x \in S}

Plans == SeqsUpTo(PrioritisedInstructions, MaxPlan)
            \cup SeqsUpTo(DefaultInstructions, MaxPlan)

(***************************************************************************)
(* sorted(plan.instructions, key=lambda x: x.priority): a new list holding *)
(* the same instruction objects (here: their indices in the plan), in      *)
(* ascending priority; Python's sort is stable.                            *)
(***************************************************************************)
RECURSIVE InsertByKey(_, _, _)
InsertByKey(out, i, instrs) ==
    \* insert i behind every element whose key is <= its own
    IF out = <<>> THEN <<i>>
    ELSE IF instrs[out[Len(out)]].priority <= instrs[i].priority
         THEN Append(out, i)
         ELSE Append(InsertByKey(SubSeq(out, 1, Len(out) - 1), i, instrs), out[Len(out)])

RECURSIVE SortPrefix(_, _)
SortPrefix(instrs, n) ==
    IF n = 0 THEN <<>> ELSE InsertByKey(SortPrefix(instrs, n - 1), n, instrs)

\* (a sort that is not stable: an instruction goes in front of those of
\* equal priority already placed)
RECURSIVE InsertBeforeEqual(_, _, _)
InsertBeforeEqual(out, i, instrs) ==
    IF out = <<>> THEN <<i>>
    ELSE IF instrs[out[Len(out)]].priority < instrs[i].priority
         THEN Append(out, i)
         ELSE Append(InsertBeforeEqual(SubSeq(out, 1, Len(out) - 1), i, instrs), out[Len(out)])
RECURSIVE UnstableSortPrefix(_, _)
UnstableSortPrefix(instrs, n) ==
    IF n = 0 THEN <<>> ELSE InsertBeforeEqual(UnstableSortPrefix(instrs, n - 1), n, instrs)
SortedUnstably(instrs) == UnstableSortPrefix(instrs, Len(instrs))

\* sorted(..., reverse=True): the highest priority number first.
SortedDescending(instrs) ==
    LET ascending == SortPrefix(instrs, Len(instrs))
    IN  [k \in 1..Len(ascending) |-> ascending[Len(ascending) + 1 - k]]

SortedByPriority(instrs) == SortPrefix(instrs, Len(instrs))

(***************************************************************************)
(* The records execute_edits builds.                                       *)
(***************************************************************************)
\* review_result and explanation default to None.
FileChange(path, original, new, kind, valid) ==
    [file_path |-> path, original_content |-> original, new_content |-> new,
     change_type |-> kind, valid |-> valid,
     review_result |-> [status |-> "<None>", issues |-> <<>>], explanation |-> "<None>"]

\* AIEditor.review_changes: identical contents are not sent to the review
\* service; an exception of the service is caught and reported in the result.
ParsedIssues == <<"issue">>
ReviewChanges(original, modified, service_answers) ==
    IF original = modified THEN [status |-> "unchanged", issues |-> <<>>]
    ELSE IF service_answers THEN [status |-> "reviewed", issues |-> ParsedIssues]
    ELSE [status |-> "error", issues |-> <<>>]

\* AIEditor.explain_changes: the same, with a fallback text.
ExplainChanges(original, modified, service_answers) ==
    IF original = modified THEN "no_changes"
    ELSE IF service_answers THEN "explanation"
    ELSE "fallback"

\* The FileChange of the modify branch, with what review_changes and
\* explain_changes returned.
ModifiedFileChange(path, original, new, valid, reviewed) ==
    [FileChange(path, original, new, "modified", valid) EXCEPT
        !.review_result = reviewed.review_result,
        !.explanation = reviewed.explanation]

\* errors.append(f"Failed to process instruction for {instruction.file_path}: ...")
ExceptionError(path) == [kind |-> "failed_to_process", file_path |-> path]
\* errors.append(f"Validation failed for {file_path}: {validation_warnings}")
ValidationError(path) == [kind |-> "validation_failed", file_path |-> path]
\* warnings.append(f"File not found for modification: {file_path}") and the others
Warning(kind, path) == [kind |-> kind, file_path |-> path]

Attempt(i, outcome) == [instr |-> i, outcome |-> outcome]

CountKind(chs, kind) == Cardinality({k \in 1..Len(chs) : chs[k].change_type = kind})

\* (a summary that counts the instructions that left an outcome as the total)
SummaryCountsOutcomes(p, chs, errs, warns) ==
    [total_instructions |-> Len(chs) + Len(errs) + Len(warns),
     successful_changes |-> Len(chs),
     failed_changes |-> Len(errs),
     warnings_count |-> Len(warns),
     files_modified |-> CountKind(chs, "modified"),
     files_created |-> CountKind(chs, "created"),
     files_deleted |-> CountKind(chs, "deleted")]

Summary(p, chs, errs, warns) ==
    [total_instructions |-> Len(p),
     successful_changes |-> Len(chs),
     failed_changes |-> Len(errs),
     warnings_count |-> Len(warns),
     files_modified |-> CountKind(chs, "modified"),
     files_created |-> CountKind(chs, "created"),
     files_deleted |-> CountKind(chs, "deleted")]

\* success = len(changes) > 0, the errors forgotten.
SuccessIgnoringErrors(chs, errs) == Len(chs) > 0

Success(chs, errs) == Len(chs) > 0 /\ Len(errs) = 0

EditResult(p, chs, errs, warns) ==
    [success |-> Success(chs, errs), changes |-> chs, plan |-> p,
     summary |-> Summary(p, chs, errs, warns), errors |-> errs, warnings |-> warns,
     branch_name |-> "<None>", pr_url |-> "<None>"]

(***************************************************************************)
(* execute_edits                                                           *)
(***************************************************************************)
Exists(path) == fs[path] # Absent

\* The instruction the loop is at.
Current == sorted_instructions[pos + 1]
Instruction == plan[Current]

InLoop == pc = "loop" /\ pos < Len(sorted_instructions)

\* (plan.instructions.sort(key=...): the plan's own list sorted in place)
BeginSortsInPlace ==
    /\ UNCHANGED manager_vars
    /\ pc = "idle"
    /\ plan' = [k \in 1..Len(plan) |-> plan[SortedByPriority(plan)[k]]]
    /\ sorted_instructions' = [k \in 1..Len(plan) |-> k]
    /\ pc' = "loop"
    /\ pos' = 0
    /\ changes' = <<>>
    /\ errors' = <<>>
    /\ warnings' = <<>>
    /\ UNCHANGED <<fs, result, attempted, edit_calls, validations>>

\* The entry of execute_edits: the three local lists and the sort.
Begin ==
    /\ UNCHANGED manager_vars
    /\ pc = "idle"
    /\ sorted_instructions' = SortedByPriority(plan)
    /\ pc' = "loop"
    /\ pos' = 0
    /\ changes' = <<>>
    /\ errors' = <<>>
    /\ warnings' = <<>>
    /\ UNCHANGED <<fs, plan, result, attempted, edit_calls, validations>>

\* except Exception as e: errors.append(error_msg); the loop goes on.  The
\* exception leaves the statement that raised it: edit_file has been called
\* when the raise comes from it or from a later statement.
\* (a break in the handler: the loop ends at the first exception)
RaiseAndStop(called_edit) ==
    /\ errors' = Append(errors, ExceptionError(Instruction.file_path))
    /\ attempted' = Append(attempted, Attempt(Current, "error"))
    /\ edit_calls' = IF called_edit THEN Append(edit_calls, Current) ELSE edit_calls
    /\ pos' = Len(sorted_instructions)
    /\ UNCHANGED <<pc, fs, plan, sorted_instructions, changes, warnings, result,
                   validations>>

\* (a compensating rollback in the handler: the changes applied so far are
\* undone on disk and dropped from the list)
RaiseRollsBack(called_edit) ==
    /\ errors' = Append(errors, ExceptionError(Instruction.file_path))
    /\ attempted' = Append(attempted, Attempt(Current, "error"))
    /\ edit_calls' = IF called_edit THEN Append(edit_calls, Current) ELSE edit_calls
    /\ pos' = pos + 1
    /\ changes' = <<>>
    /\ fs' = [path \in DOMAIN fs |->
                LET touching == {k \in 1..Len(changes) : changes[k].file_path = path}
                    first == CHOOSE k \in touching : \A j \in touching : k <= j
                IN  IF touching = {} THEN fs[path]
                    ELSE IF changes[first].change_type = "created" THEN Absent
                    ELSE changes[first].original_content]
    /\ UNCHANGED <<pc, plan, sorted_instructions, warnings, result, validations>>

Raise(called_edit) ==
    /\ errors' = Append(errors, ExceptionError(Instruction.file_path))
    /\ attempted' = Append(attempted, Attempt(Current, "error"))
    /\ edit_calls' = IF called_edit THEN Append(edit_calls, Current) ELSE edit_calls
    /\ pos' = pos + 1
    /\ UNCHANGED <<pc, fs, plan, sorted_instructions, changes, warnings, result,
                   validations>>

\* warnings.append(...), and the iteration ends
Warn(kind) ==
    /\ warnings' = Append(warnings, Warning(kind, Instruction.file_path))
    /\ attempted' = Append(attempted, Attempt(Current, "warning"))
    /\ pos' = pos + 1
    /\ UNCHANGED <<pc, fs, plan, sorted_instructions, changes, errors, result,
                   edit_calls, validations>>

\* (no existence test: open() of the missing file raises FileNotFoundError)
ModifyMissingRaises == Raise(FALSE)

\* if not full_path.exists(): warnings.append(...); continue
ModifyMissing == Warn("modify_not_found")

\* (the change recorded whatever is_valid says; written only when valid)
ApplyModifyRecordsInvalid(path, original_content, new_content, is_valid, reviewed) ==
    /\ changes' = Append(changes,
           ModifiedFileChange(path, original_content, new_content, is_valid, reviewed))
    /\ IF is_valid
       THEN /\ fs' = [fs EXCEPT ![path] = new_content]
            /\ attempted' = Append(attempted, Attempt(Current, "change"))
            /\ UNCHANGED errors
       ELSE /\ errors' = Append(errors, ValidationError(path))
            /\ attempted' = Append(attempted, Attempt(Current, "error"))
            /\ UNCHANGED fs

\* (the write moved in front of the test of is_valid)
ApplyModifyUngated(path, original_content, new_content, is_valid, reviewed) ==
    /\ fs' = [fs EXCEPT ![path] = new_content]
    /\ IF is_valid
       THEN /\ changes' = Append(changes,
                   ModifiedFileChange(path, original_content, new_content, is_valid, reviewed))
            /\ attempted' = Append(attempted, Attempt(Current, "change"))
            /\ UNCHANGED errors
       ELSE /\ errors' = Append(errors, ValidationError(path))
            /\ attempted' = Append(attempted, Attempt(Current, "error"))
            /\ UNCHANGED changes

\* if is_valid: write the file, changes.append(change)
\* else: errors.append(f"Validation failed for ...")
ApplyModify(path, original_content, new_content, is_valid, reviewed) ==
    IF is_valid
    THEN /\ fs' = [fs EXCEPT ![path] = new_content]
         /\ changes' = Append(changes,
                ModifiedFileChange(path, original_content, new_content, is_valid, reviewed))
         /\ attempted' = Append(attempted, Attempt(Current, "change"))
         /\ UNCHANGED errors
    ELSE /\ errors' = Append(errors, ValidationError(path))
         /\ attempted' = Append(attempted, Attempt(Current, "error"))
         /\ UNCHANGED <<fs, changes>>

\* (review_changes and explain_changes letting the exception of their
\* service out: the except clause of the loop records it)
ModifyServiceFailureRaises ==
    /\ UNCHANGED manager_vars
    /\ InLoop
    /\ Instruction.change_type = "modify"
    /\ LET path == Instruction.file_path
           original_content == fs[path]
       IN  IF ~Exists(path)
           THEN ModifyMissing
           ELSE \/ Raise(FALSE)
                \/ Raise(TRUE)
                \/ \E new_content \in GeneratedContents, is_valid \in BOOLEAN,
                      review_answers \in BOOLEAN, explanation_answers \in BOOLEAN :
                      /\ edit_calls' = Append(edit_calls, Current)
                      /\ validations' = Append(validations,
                                               [instr |-> Current, is_valid |-> is_valid])
                      /\ pos' = pos + 1
                      /\ IF original_content = new_content
                            \/ (review_answers /\ explanation_answers)
                         THEN ApplyModify(path, original_content, new_content, is_valid,
                                [review_result |-> ReviewChanges(original_content, new_content,
                                                                 review_answers),
                                 explanation |-> ExplainChanges(original_content, new_content,
                                                                explanation_answers)])
                         ELSE /\ errors' = Append(errors, ExceptionError(path))
                              /\ attempted' = Append(attempted, Attempt(Current, "error"))
                              /\ UNCHANGED <<fs, changes>>
                      /\ UNCHANGED <<pc, plan, sorted_instructions, warnings, result>>

Modify ==
    /\ UNCHANGED manager_vars
    /\ InLoop
    /\ Instruction.change_type = "modify"
    /\ LET path == Instruction.file_path
           original_content == fs[path]
       IN  IF ~Exists(path)
           THEN ModifyMissing
           ELSE \/ \* open/read raises
                   Raise(FALSE)
                \/ \* edit_file or validate_edit raises
                   Raise(TRUE)
                \/ \* edit_file and validate_edit return; the review and the
                   \* explanation service answer or fail, and review_changes
                   \* and explain_changes return either way
                   \E new_content \in GeneratedContents, is_valid \in BOOLEAN,
                      review_answers \in BOOLEAN, explanation_answers \in BOOLEAN :
                      /\ edit_calls' = Append(edit_calls, Current)
                      /\ validations' = Append(validations,
                                               [instr |-> Current, is_valid |-> is_valid])
                      /\ pos' = pos + 1
                      /\ ApplyModify(path, original_content, new_content, is_valid,
                            [review_result |-> ReviewChanges(original_content, new_content,
                                                             review_answers),
                             explanation |-> ExplainChanges(original_content, new_content,
                                                            explanation_answers)])
                      /\ UNCHANGED <<pc, plan, sorted_instructions, warnings, result>>

\* (the create branch given the validation gate of the modify branch)
CreateValidated ==
    /\ UNCHANGED manager_vars
    /\ InLoop
    /\ Instruction.change_type = "create"
    /\ LET path == Instruction.file_path
       IN  \/ Raise(FALSE)
           \/ Raise(TRUE)
           \/ \E new_content \in GeneratedContents, is_valid \in BOOLEAN :
                 /\ edit_calls' = Append(edit_calls, Current)
                 /\ validations' = Append(validations,
                                          [instr |-> Current, is_valid |-> is_valid])
                 /\ pos' = pos + 1
                 /\ IF is_valid
                    THEN /\ fs' = [fs EXCEPT ![path] = new_content]
                         /\ changes' = Append(changes,
                                FileChange(path, "", new_content, "created", TRUE))
                         /\ attempted' = Append(attempted, Attempt(Current, "change"))
                         /\ UNCHANGED errors
                    ELSE /\ errors' = Append(errors, ValidationError(path))
                         /\ attempted' = Append(attempted, Attempt(Current, "error"))
                         /\ UNCHANGED <<fs, changes>>
                 /\ UNCHANGED <<pc, plan, sorted_instructions, warnings, result>>

Create ==
    /\ UNCHANGED manager_vars
    /\ InLoop
    /\ Instruction.change_type = "create"
    /\ LET path == Instruction.file_path
       IN  \/ \* mkdir raises
              Raise(FALSE)
           \/ \* edit_file or open() raises
              Raise(TRUE)
           \/ \E new_content \in GeneratedContents :
                 /\ edit_calls' = Append(edit_calls, Current)
                 /\ fs' = [fs EXCEPT ![path] = new_content]
                 /\ changes' = Append(changes,
                        FileChange(path, "", new_content, "created", TRUE))
                 /\ attempted' = Append(attempted, Attempt(Current, "change"))
                 /\ pos' = pos + 1
                 /\ UNCHANGED <<pc, plan, sorted_instructions, errors, warnings, result,
                                validations>>

\* (the record built after the unlink, from the file as it is then)
DeleteExistingRecordedLate(path) ==
    /\ fs' = [fs EXCEPT ![path] = Absent]
    /\ changes' = Append(changes, FileChange(path, "", "", "deleted", TRUE))
    /\ attempted' = Append(attempted, Attempt(Current, "change"))
    /\ pos' = pos + 1
    /\ UNCHANGED <<pc, plan, sorted_instructions, errors, warnings, result,
                   edit_calls, validations>>

\* read the content, full_path.unlink(), changes.append(change)
DeleteExisting(path) ==
    /\ fs' = [fs EXCEPT ![path] = Absent]
    /\ changes' = Append(changes, FileChange(path, fs[path], "", "deleted", TRUE))
    /\ attempted' = Append(attempted, Attempt(Current, "change"))
    /\ pos' = pos + 1
    /\ UNCHANGED <<pc, plan, sorted_instructions, errors, warnings, result,
                   edit_calls, validations>>

Delete ==
    /\ UNCHANGED manager_vars
    /\ InLoop
    /\ Instruction.change_type = "delete"
    /\ LET path == Instruction.file_path
       IN  IF Exists(path)
           THEN \/ \* the read or the unlink raises
                   Raise(FALSE)
                \/ DeleteExisting(path)
           ELSE Warn("delete_not_found")

\* (the rename branch raising NotImplementedError instead of warning)
RenameRaises ==
    /\ UNCHANGED manager_vars
    /\ InLoop
    /\ Instruction.change_type = "rename"
    /\ Raise(FALSE)

Rename ==
    /\ UNCHANGED manager_vars
    /\ InLoop
    /\ Instruction.change_type = "rename"
    /\ Warn("rename_not_implemented")

\* A change_type none of the four branches tests for: the iteration ends
\* with nothing recorded.
OtherChangeType ==
    /\ UNCHANGED manager_vars
    /\ InLoop
    /\ Instruction.change_type \notin {"modify", "create", "delete", "rename"}
    /\ attempted' = Append(attempted, Attempt(Current, "none"))
    /\ pos' = pos + 1
    /\ UNCHANGED <<pc, fs, plan, sorted_instructions, changes, errors, warnings,
                   result, edit_calls, validations>>

\* After the loop: the summary, the success flag and the return.
Return ==
    /\ UNCHANGED manager_vars
    /\ pc = "loop"
    /\ pos = Len(sorted_instructions)
    /\ result' = EditResult(plan, changes, errors, warnings)
    /\ pc' = "done"
    /\ UNCHANGED <<fs, plan, sorted_instructions, pos, changes, errors, warnings,
                   attempted, edit_calls, validations>>

\* The working copy as cloned: a.py is in the repository, b.md is not.
InitialFileSystems ==
    {f \in [Paths -> {Absent, OriginalContent}] :
        f["a.py"] = OriginalContent /\ f["b.md"] = Absent}

ExecutorInit ==
    /\ pc = "idle"
    /\ fs \in InitialFileSystems
    /\ sorted_instructions = <<>>
    /\ pos = 0
    /\ changes = <<>>
    /\ errors = <<>>
    /\ warnings = <<>>
    /\ result = NoResult
    /\ attempted = <<>>
    /\ edit_calls = <<>>
    /\ validations = <<>>

(***************************************************************************)
(* The context cache: analyze_repository and cleanup.                      *)
(***************************************************************************)
MaxCalls == 4
MaxThreads == 2

\* Repository URLs; parse_repo_url raises ValueError for a URL whose path has
\* fewer than two parts.
MalformedUrls == {"https://github.com/o"}
\* A URL of another host, which parse_repo_url takes; the URL of test_github.
ForeignUrls == {"https://gitlab.com/o/r"}
TestUrl == "https://github.com/octocat/Hello-World"
Urls == {"https://github.com/o/r", "https://github.com/o/q", TestUrl}
            \cup MalformedUrls \cup ForeignUrls
UrlParses(url) == url \notin MalformedUrls

\* cache_key = hashlib.md5(repo_url.encode()).hexdigest()
CacheKey(url) == <<"md5", url>>

\* A RepositoryContext: mkdtemp gives every context its own directory.
RepositoryContext(url, dir) == [repo_url |-> url, temp_dir |-> dir]
NoContext == [repo_url |-> "", temp_dir |-> 0]

\* (the cache never consulted)
CacheNeverHits(url) == FALSE

\* if cache_key in self.context_cache
CacheHit(url) == CacheKey(url) \in DOMAIN context_cache

\* self.context_cache[cache_key] = context
CachePut(cache, url, context) ==
    [k \in DOMAIN cache \cup {CacheKey(url)} |->
        IF k = CacheKey(url) THEN context ELSE cache[k]]

Call(op, url, outcome, context) ==
    [op |-> op, url |-> url, outcome |-> outcome, context |-> context]
NoCall == Call("none", "", "none", NoContext)

Count(calls, stage) == [calls EXCEPT ![stage] = @ + 1]

\* The steps of the build up to the one that raises: parse_repo_url,
\* get_repository_info, mkdtemp and clone_from, the scans.
CalledUpTo(calls, stage) ==
    CASE stage = "parse" -> Count(calls, "parse")
      [] stage = "info"  -> Count(Count(calls, "parse"), "info")
      [] stage = "clone" -> Count(Count(Count(calls, "parse"), "info"), "clone")
      [] stage = "scan"  ->
            Count(Count(Count(Count(calls, "parse"), "info"), "clone"), "scan")

\* mkdtemp has made the directory when clone_from or a scan raises.
DirMadeAt(stage) == stage \in {"clone", "scan"}

\* The stages a build of url can raise at.
FailureStages(url) ==
    IF UrlParses(url) THEN {"info", "clone", "scan"} ELSE {"parse"}

\* analyze_repository, the cache hit: return self.context_cache[cache_key]
AnalyzeHit(url) ==
    /\ CacheHit(url)
    /\ last_call' = Call("analyze", url, "returned", context_cache[CacheKey(url)])
    /\ returned_for' = [returned_for EXCEPT ![url] = @ \cup {context_cache[CacheKey(url)]}]
    /\ UNCHANGED <<context_cache, temp_dirs, mkdtemp_count, service_calls, builds>>

\* (the context cached before the step that raises)
AnalyzeRaisesCachesPartial(url) ==
    /\ ~CacheHit(url)
    /\ \E stage \in FailureStages(url) :
          /\ service_calls' = CalledUpTo(service_calls, stage)
          /\ IF DirMadeAt(stage)
             THEN /\ mkdtemp_count' = mkdtemp_count + 1
                  /\ temp_dirs' = temp_dirs \cup {mkdtemp_count + 1}
                  /\ context_cache' = CachePut(context_cache, url,
                                        RepositoryContext(url, mkdtemp_count + 1))
             ELSE UNCHANGED <<mkdtemp_count, temp_dirs, context_cache>>
    /\ last_call' = Call("analyze", url, "raised", NoContext)
    /\ UNCHANGED <<builds, returned_for>>

\* analyze_repository, the build raises: logged and raised again.
AnalyzeRaises(url) ==
    /\ ~CacheHit(url)
    /\ \E stage \in FailureStages(url) :
          /\ service_calls' = CalledUpTo(service_calls, stage)
          /\ IF DirMadeAt(stage)
             THEN /\ mkdtemp_count' = mkdtemp_count + 1
                  /\ temp_dirs' = temp_dirs \cup {mkdtemp_count + 1}
             ELSE UNCHANGED <<mkdtemp_count, temp_dirs>>
    /\ last_call' = Call("analyze", url, "raised", NoContext)
    /\ UNCHANGED <<context_cache, builds, returned_for>>

\* analyze_repository, the build succeeds: the context is cached and returned.
AnalyzeBuilds(url) ==
    /\ ~CacheHit(url)
    /\ UrlParses(url)
    /\ LET context == RepositoryContext(url, mkdtemp_count + 1)
       IN  /\ service_calls' = CalledUpTo(service_calls, "scan")
           /\ mkdtemp_count' = mkdtemp_count + 1
           /\ temp_dirs' = temp_dirs \cup {mkdtemp_count + 1}
           /\ builds' = [builds EXCEPT ![url] = @ + 1]
           /\ context_cache' = CachePut(context_cache, url, context)
           /\ returned_for' = [returned_for EXCEPT ![url] = @ \cup {context}]
           /\ last_call' = Call("analyze", url, "returned", context)

AnalyzeRepository ==
    /\ ncalls < MaxCalls
    /\ ncalls' = ncalls + 1
    /\ \E url \in Urls :
          \/ AnalyzeHit(url)
          \/ AnalyzeRaises(url)
          \/ AnalyzeBuilds(url)
    /\ UNCHANGED <<executor_vars, threads, flow_vars>>

\* cleanup(context): shutil.rmtree(context.temp_dir) when the directory
\* exists; a failure of rmtree is logged and swallowed.  Nothing else.
CleanupContext(context) ==
    /\ \/ temp_dirs' = temp_dirs \ {context.temp_dir}
       \/ /\ context.temp_dir \in temp_dirs
          /\ temp_dirs' = temp_dirs
    /\ UNCHANGED <<context_cache, mkdtemp_count, service_calls, builds, returned_for>>

\* The contexts a caller can hold: those analyze_repository has returned.
ReturnedContexts == UNION {returned_for[url] : url \in Urls}

Cleanup ==
    /\ ncalls < MaxCalls
    /\ ncalls' = ncalls + 1
    /\ \E context \in ReturnedContexts :
          /\ CleanupContext(context)
          /\ last_call' = Call("cleanup", context.repo_url,
                               IF context.temp_dir \in temp_dirs'
                               THEN "rmtree_failed" ELSE "returned", context)
    /\ UNCHANGED <<executor_vars, threads, flow_vars>>

CacheInit ==
    /\ context_cache = <<>>
    /\ temp_dirs = {}
    /\ mkdtemp_count = 0
    /\ service_calls = [parse |-> 0, info |-> 0, clone |-> 0, scan |-> 0]
    /\ builds = [url \in Urls |-> 0]
    /\ returned_for = [url \in Urls |-> {}]
    /\ last_call = NoCall
    /\ ncalls = 0

Threads == 1..MaxThreads
Thread(at, url, context) == [pc |-> at, url |-> url, context |-> context]
IdleThread == Thread("idle", "", NoContext)
ThreadsInit == threads = [t \in Threads |-> IdleThread]

(***************************************************************************)
(* plan_edits: RepositoryContext.to_dict, AIEditor.generate_edit_plan      *)
(* (with _prepare_repo_context and the planning service's answer) and      *)
(* _validate_edit_plan.                                                    *)
(***************************************************************************)
MaxResponseInstructions == 2
LargePlanThreshold == 20
KeyFilesLimit == 5
KeyFileContentCap == 1000

\* Python's None, as a string and as a file path.
NoneValue == "<None>"
NonePath == <<"<None>">>

\* dict.get(key, default); a dict is a function on its keys.
Get(d, key, default) == IF key \in DOMAIN d THEN d[key] ELSE default
Restrict(f, keys) == [k \in keys |-> f[k]]

\* The file paths of the planner's instructions, character by character:
\* a.py, .git/c, s/.git/c, a.git/c, .gitx, /etc/p
PlannerPaths ==
    { <<"a", ".", "p", "y">>,
      <<".", "g", "i", "t", "/", "c">>,
      <<"s", "/", ".", "g", "i", "t", "/", "c">>,
      <<"a", ".", "g", "i", "t", "/", "c">>,
      <<".", "g", "i", "t", "x">>,
      <<"/", "e", "t", "c", "/", "p">> }

\* The contexts plan_edits is called with: an empty repository and one with
\* files (key_files_content as pairs of a path and the length of the content).
PlannedContexts ==
    { [repo_url |-> "https://github.com/o/r", owner |-> "o", repo_name |-> "r",
       description |-> "", default_branch |-> "main", structure |-> "tree:empty",
       important_files |-> <<>>, key_files_content |-> <<>>, languages |-> <<>>,
       file_count |-> 0],
      [repo_url |-> "https://github.com/o/q", owner |-> "o", repo_name |-> "q",
       description |-> "demo", default_branch |-> "dev", structure |-> "tree:files",
       important_files |-> <<"README.md", "a.py">>,
       key_files_content |-> <<[path |-> "README.md", length |-> 1200],
                               [path |-> "a.py", length |-> 40]>>,
       languages |-> <<"python">>, file_count |-> 2] }

\* RepositoryContext.to_dict
ToDict(context) ==
    [repo_url |-> context.repo_url,
     owner |-> context.owner,
     repo_name |-> context.repo_name,
     description |-> context.description,
     default_branch |-> context.default_branch,
     structure |-> context.structure,
     important_files |-> context.important_files,
     key_files |-> context.key_files_content,
     languages |-> context.languages,
     file_count |-> context.file_count]

Min(a, b) == IF a < b THEN a ELSE b

\* list(key_files.items())[:5], each content[:1000]
SampleKeyFiles(key_files) ==
    [k \in 1..Min(Len(key_files), KeyFilesLimit) |->
        [path |-> key_files[k].path,
         length |-> Min(key_files[k].length, KeyFileContentCap)]]

\* AIEditor._prepare_repo_context: the context put into the planning prompt.
\* (The key_files entry is left out when the context has no key files; an
\* empty sample stands for that.)
PrepareRepoContext(repo_context) ==
    [repository |->
        [owner |-> Get(repo_context, "owner", NoneValue),
         name |-> Get(repo_context, "repo", NoneValue),
         description |-> Get(repo_context, "description", ""),
         default_branch |-> Get(repo_context, "default_branch", "main")],
     structure |-> Get(repo_context, "structure", "tree:empty"),
     important_files |-> Get(repo_context, "important_files", <<>>),
     languages |-> Get(repo_context, "languages", <<>>),
     file_count |-> Get(repo_context, "file_count", 0),
     key_files |-> SampleKeyFiles(Get(repo_context, "key_files", <<>>))]

NothingHanded ==
    [repository |-> [owner |-> "", name |-> "", description |-> "",
                     default_branch |-> ""],
     structure |-> "", important_files |-> <<>>, languages |-> <<>>,
     file_count |-> 0, key_files |-> <<>>]

\* The answers of the planning service, after json.loads: text that is not
\* JSON, a JSON list, or a JSON object with or without its "instructions" and
\* "confidence"; an instruction is an object with or without its file_path,
\* change_type and priority, or a bare string.
InstructionObjects ==
    {Restrict(full, keys) :
        full \in [file_path : PlannerPaths, change_type : {"modify", "delete"},
                  priority : {2}],
        keys \in SUBSET {"file_path", "change_type", "priority"}}
NotAnObject == [not_an_object |-> TRUE]
ResponseInstructions == InstructionObjects \cup {NotAnObject}
PlanObjects ==
    {Restrict(full, keys) :
        full \in [instructions : SeqsUpTo(ResponseInstructions, MaxResponseInstructions),
                  confidence : {"0.9"}],
        keys \in SUBSET {"instructions", "confidence"}}
PlanningResponses ==
    {[json |-> "invalid", data |-> <<>>], [json |-> "list", data |-> <<>>]}
        \cup {[json |-> "object", data |-> d] : d \in PlanObjects}
NoResponse == [json |-> "none", data |-> <<>>]

\* EditInstruction(file_path=instr.get("file_path"),
\*                 change_type=instr.get("change_type", "modify"),
\*                 priority=instr.get("priority", 1))
ParseInstruction(instr) ==
    [file_path |-> Get(instr, "file_path", NonePath),
     change_type |-> Get(instr, "change_type", "modify"),
     priority |-> Get(instr, "priority", DefaultPriority)]

\* json.loads raises on text that is not JSON; .get raises AttributeError on
\* a list and on an instruction that is not an object.
GenerateEditPlanRaises(answer) ==
    \/ answer.json \in {"invalid", "list"}
    \/ \E k \in 1..Len(Get(answer.data, "instructions", <<>>)) :
          Get(answer.data, "instructions", <<>>)[k] = NotAnObject

\* The EditPlan generate_edit_plan returns: instructions and confidence.
ParsedPlan(answer) ==
    LET instructions == Get(answer.data, "instructions", <<>>)
    IN  [instructions |-> [k \in 1..Len(instructions) |-> ParseInstruction(instructions[k])],
         confidence |-> Get(answer.data, "confidence", "0.7")]
NoPlan == [instructions |-> <<>>, confidence |-> ""]

\* re.search(pattern, s), for a pattern of literal characters
Search(pattern, s) ==
    \E i \in 1..(Len(s) - Len(pattern) + 1) : SubSeq(s, i, i + Len(pattern) - 1) = pattern
\* s.endswith(ext)
EndsWith(s, ext) ==
    Len(s) >= Len(ext) /\ SubSeq(s, Len(s) - Len(ext) + 1, Len(s)) = ext

\* risky_patterns, in the order of the list
RiskyPatterns ==
    << <<".", "g", "i", "t", "/">>,
       <<"/", "e", "t", "c", "/">>,
       <<"/", "b", "i", "n", "/">>,
       <<"/", "u", "s", "r", "/">>,
       <<"/", "v", "a", "r", "/">>,
       <<"/", "s", "y", "s", "/">>,
       <<"/", "p", "r", "o", "c", "/">> >>
\* important_extensions
ImportantExtensions ==
    { <<".", "p", "y">>, <<".", "j", "s">>, <<".", "t", "s">>,
      <<".", "j", "a", "v", "a">>, <<".", "c", "p", "p">>, <<".", "c">>,
      <<".", "g", "o">>, <<".", "r", "s">> }

ValidatorWarning(kind, path) == [kind |-> kind, file_path |-> path]

\* The warnings _validate_edit_plan appends for one instruction.
InstructionWarnings(instruction) ==
    LET matching == SelectSeq(RiskyPatterns,
                              LAMBDA pattern : Search(pattern, instruction.file_path))
    IN  [k \in 1..Len(matching) |-> ValidatorWarning("risky_path", instruction.file_path)]
        \o (IF /\ instruction.change_type = "delete"
               /\ \E ext \in ImportantExtensions : EndsWith(instruction.file_path, ext)
            THEN <<ValidatorWarning("deleting_source", instruction.file_path)>>
            ELSE <<>>)

RECURSIVE InstructionsWarnings(_, _)
InstructionsWarnings(instructions, n) ==
    IF n = 0 THEN <<>>
    ELSE InstructionsWarnings(instructions, n - 1) \o InstructionWarnings(instructions[n])

\* The local list `warnings` of _validate_edit_plan, which is logged.
PlanWarnings(instructions) ==
    (IF Len(instructions) > LargePlanThreshold
     THEN <<ValidatorWarning("large_plan", NonePath)>> ELSE <<>>)
        \o InstructionsWarnings(instructions, Len(instructions))

\* (the validator blocking a plan that has a risky path)
ValidatorBlocksRisky(instructions) ==
    \/ \E k \in 1..Len(instructions) : instructions[k].file_path = NonePath
    \/ \E k \in 1..Len(instructions) :
          \E j \in 1..Len(RiskyPatterns) : Search(RiskyPatterns[j], instructions[k].file_path)

\* re.search(pattern, file_path) raises TypeError when file_path is None.
ValidatorRaises(instructions) ==
    \E k \in 1..Len(instructions) : instructions[k].file_path = NonePath

IdlePlanner ==
    [pc |-> "idle", context |-> CHOOSE c \in PlannedContexts : TRUE,
     handed |-> NothingHanded, response |-> NoResponse, plan |-> NoPlan,
     warnings |-> <<>>]

\* plan_edits up to the request to the planning service: the context is
\* converted, prepared and put into the prompt; the service answers or the
\* request raises.
CallPlanningService ==
    /\ planner.pc = "called"
    /\ \/ \E answer \in PlanningResponses :
             planner' = [planner EXCEPT !.pc = "answered",
                                        !.handed = PrepareRepoContext(ToDict(planner.context)),
                                        !.response = answer]
       \/ planner' = [planner EXCEPT !.pc = "raised",
                                     !.handed = PrepareRepoContext(ToDict(planner.context))]
    /\ UNCHANGED <<executor_vars, cache_vars, threads, request_vars, helper_vars, client_vars>>

\* generate_edit_plan from the answer on: json.loads and the conversion to an
\* EditPlan; an exception is logged and raised again, by plan_edits too.
GenerateEditPlan ==
    /\ planner.pc = "answered"
    /\ IF GenerateEditPlanRaises(planner.response)
       THEN planner' = [planner EXCEPT !.pc = "raised"]
       ELSE planner' = [planner EXCEPT !.pc = "planned",
                                       !.plan = ParsedPlan(planner.response)]
    /\ UNCHANGED <<executor_vars, cache_vars, threads, request_vars, helper_vars, client_vars>>

\* self._validate_edit_plan(plan, context); return plan
ValidateEditPlan ==
    /\ planner.pc = "planned"
    /\ IF ValidatorRaises(planner.plan.instructions)
       THEN planner' = [planner EXCEPT !.pc = "raised"]
       ELSE planner' = [planner EXCEPT !.pc = "returned",
                                       !.warnings = PlanWarnings(planner.plan.instructions)]
    /\ UNCHANGED <<executor_vars, cache_vars, threads, request_vars, helper_vars, client_vars>>

(***************************************************************************)
(* The request handlers of app.py, one request from before_request to the  *)
(* response.  The handlers call the one RepositoryManager of the process:  *)
(* analyze_repository and cleanup as modelled above, plan_edits by its     *)
(* outcome (an exception, or a plan), execute_edits by the executor's      *)
(* steps.  The sections app, file and safety that app.py reads from the    *)
(* configuration are not defined by src/src/config.py; the value of        *)
(* config.safety.create_branch is an input of the deployment.              *)
(***************************************************************************)
MaxRequestPlan == 1
PreviewLimit == 5

Endpoints == {"analyze", "plan", "execute", "preview", "github_test", "ai_test",
              "unknown"}
UrlEndpoints == {"analyze", "plan", "execute", "preview"}
RequestIds == {"req_1", "req_2"}
Missing == "<missing>"

\* validate_github_url: ^https://github\.com/<owner>/<repo>(\.git)?$ or the
\* git@github.com: form, on the URLs of the model.
ValidateGithubUrl(url) ==
    url \in {"https://github.com/o/r", "https://github.com/o/q", TestUrl}

\* The URLs a client sends: a repository, a URL with no repository name, a
\* URL of another host; or no repo_url field.
RequestUrls == {"https://github.com/o/r"} \cup MalformedUrls \cup ForeignUrls

\* A request: the route, the body ("none": absent or empty, "object": a JSON
\* object, "not_json": text request.get_json() raises on), and the fields
\* of the object; create_pr is the field of that name: "true", "false", or
\* Missing when the object has none.
Request(endpoint, body, repo_url, user_request, create_pr) ==
    [endpoint |-> endpoint, body |-> body, repo_url |-> repo_url,
     user_request |-> user_request, create_pr |-> create_pr]
Requests ==
    {Request(e, "none", Missing, FALSE, Missing) : e \in Endpoints}
        \cup {Request(e, "not_json", Missing, FALSE, Missing) : e \in UrlEndpoints}
        \cup {Request("analyze", "object", u, FALSE, Missing) :
                 u \in RequestUrls \cup {Missing}}
        \cup {Request(e, "object", u, r, Missing) :
                 e \in {"plan", "preview"}, u \in RequestUrls \cup {Missing}, r \in BOOLEAN}
        \cup {Request("execute", "object", u, r, c) :
                 u \in RequestUrls \cup {Missing}, r \in BOOLEAN,
                 c \in {"true", "false", Missing}}
NoRequest == Request("none", "none", Missing, FALSE, Missing)

\* create_pr = data.get('create_pr', True)
GetCreatePr(data) == IF data.create_pr = Missing THEN TRUE ELSE data.create_pr = "true"

\* config.safety.create_branch
Configs == [safety_create_branch : BOOLEAN]

\* The plans plan_edits returns to a handler.
RequestPlans == SeqsUpTo(DefaultInstructions, MaxRequestPlan)

\* A response: the status, the "error" text, and the fields request_id,
\* success, pull_request and pull_request_error of the JSON body (Missing
\* when the body has no such field).
Response(status, error, request_id, success) ==
    [status |-> status, error |-> error, request_id |-> request_id,
     success |-> success, pull_request |-> Missing, pull_request_error |-> Missing]
NoResponseYet == Response(0, "", Missing, Missing)

\* The handler: its position, session['request_id'], the context and the
\* pr_result it holds, and whether plan_edits raised.
Handler(at, request_id, context, pr_result, plan_failed) ==
    [pc |-> at, request_id |-> request_id, context |-> context,
     pr_result |-> pr_result, plan_failed |-> plan_failed]
IdleHandler == Handler("new", Missing, NoContext, "none", FALSE)

HandlerAt(at) == handler.pc = at
Respond(r) ==
    /\ response' = r
    /\ handler' = [handler EXCEPT !.pc = "responded"]
Log(calls) == call_log' = call_log \o calls

\* The request has what its handler asks for before it calls the manager.
BodyAccepted ==
    CASE request.endpoint = "analyze" ->
            request.body = "object" /\ request.repo_url # Missing
      [] request.endpoint \in {"plan", "execute", "preview"} ->
            request.body = "object" /\ request.repo_url # Missing /\ request.user_request
      [] OTHER -> TRUE
UrlAccepted ==
    \/ request.endpoint \notin {"analyze", "plan", "execute"}
    \/ ValidateGithubUrl(request.repo_url)

\* flask-limiter answers 429 before the handlers of the application run;
\* otherwise before_request stores a fresh request id in the session.
BeforeRequest ==
    /\ HandlerAt("new")
    /\ \/ /\ request.endpoint # "unknown"
          /\ Respond(Response(429, "Rate limit exceeded", Missing, Missing))
       \/ \E id \in RequestIds :
             /\ handler' = [handler EXCEPT !.pc = "dispatch", !.request_id = id]
             /\ UNCHANGED response
    /\ UNCHANGED <<request, config, call_log, planner, helper_vars, client_vars, executor_vars, cache_vars, threads>>

\* No route matches: the 404 handler.
NotFound ==
    /\ HandlerAt("dispatch")
    /\ request.endpoint = "unknown"
    /\ Respond(Response(404, "Not found", Missing, Missing))
    /\ UNCHANGED <<request, config, call_log, planner, helper_vars, client_vars, executor_vars, cache_vars, threads>>

\* The 400 answers of the four handlers that take a repository URL.
RejectRequest ==
    /\ HandlerAt("dispatch")
    /\ request.endpoint \in UrlEndpoints
    /\ request.body # "not_json"
    /\ ~(BodyAccepted /\ UrlAccepted)
    /\ Respond(Response(400,
                        IF ~BodyAccepted THEN "Missing required fields"
                        ELSE "Invalid GitHub URL", Missing, Missing))
    /\ UNCHANGED <<request, config, call_log, planner, helper_vars, client_vars, executor_vars, cache_vars, threads>>

\* request.get_json() raises on a body that is not JSON, outside the try of
\* the handler: the handler of Exception answers.
HandleException ==
    /\ HandlerAt("dispatch")
    /\ request.endpoint \in UrlEndpoints
    /\ request.body = "not_json"
    /\ Respond(Response(500, "Internal server error", handler.request_id, Missing))
    /\ UNCHANGED <<request, config, call_log, planner, helper_vars, client_vars, executor_vars, cache_vars, threads>>

\* The answer of a handler's except clause: the four handlers of the API add
\* the request id, the two test handlers do not.
ErrorText ==
    CASE request.endpoint = "analyze" -> "Analysis failed"
      [] request.endpoint = "plan" -> "Planning failed"
      [] request.endpoint = "execute" -> "Execution failed"
      [] request.endpoint = "preview" -> "Preview failed"
      [] OTHER -> "str(e)"
FailureResponse ==
    IF request.endpoint \in UrlEndpoints
    THEN Response(500, ErrorText, handler.request_id, Missing)
    ELSE Response(500, ErrorText, Missing, "false")

\* context = repo_manager.analyze_repository(repo_url): the cache test, then
\* the cached context, a build, or an exception.
AnalyzedUrl == IF request.endpoint = "github_test" THEN TestUrl ELSE request.repo_url
HandlerAnalyze ==
    /\ HandlerAt("dispatch")
    /\ request.endpoint \in UrlEndpoints \cup {"github_test"}
    /\ request.body # "not_json"
    /\ BodyAccepted /\ UrlAccepted
    /\ Log(<<"cache_lookup">>)
    /\ \/ /\ (AnalyzeHit(AnalyzedUrl) \/ AnalyzeBuilds(AnalyzedUrl))
          /\ handler' = [handler EXCEPT !.pc = "analyzed", !.context = last_call'.context]
          /\ UNCHANGED response
       \/ /\ AnalyzeRaises(AnalyzedUrl)
          /\ Respond(FailureResponse)
    /\ UNCHANGED <<ncalls, request, config, planner, helper_vars, client_vars, executor_vars, threads>>

\* The analyze and the github test handlers answer with the analysis.
RespondAnalysis ==
    /\ HandlerAt("analyzed")
    /\ request.endpoint \in {"analyze", "github_test"}
    /\ Respond(Response(200, "",
                        IF request.endpoint = "analyze" THEN handler.request_id ELSE Missing,
                        "true"))
    /\ UNCHANGED <<request, config, call_log, planner, helper_vars, client_vars, executor_vars, cache_vars, threads>>

\* (plan_edits failing, and the handler going on with a partial plan)
PlanEditsRaisesKeepsPartial ==
    /\ handler' = [handler EXCEPT !.pc = "planned", !.plan_failed = TRUE]
    /\ plan' \in RequestPlans \ {<<>>}
    /\ UNCHANGED response

\* plan_edits raises (generate_edit_plan or the validator): the except
\* clause of the handler answers.
PlanEditsRaises ==
    /\ handler' = [handler EXCEPT !.pc = "responded", !.plan_failed = TRUE]
    /\ response' = FailureResponse
    /\ UNCHANGED plan

\* plan = repo_manager.plan_edits(context, user_request)
HandlerPlan ==
    /\ HandlerAt("analyzed")
    /\ request.endpoint \in {"plan", "execute", "preview"}
    /\ Log(<<"plan_edits">>)
    /\ \/ PlanEditsRaises
       \/ \E p \in RequestPlans :
             /\ plan' = p
             /\ handler' = [handler EXCEPT !.pc = "planned"]
             /\ UNCHANGED response
    /\ UNCHANGED <<pc, fs, sorted_instructions, pos, changes, errors, warnings, result,
                   attempted, edit_calls, validations>>
    /\ UNCHANGED <<request, config, planner, helper_vars, client_vars, cache_vars, threads>>

\* The plan handler answers with the plan.
RespondPlan ==
    /\ HandlerAt("planned")
    /\ request.endpoint = "plan"
    /\ Respond(Response(200, "", handler.request_id, "true"))
    /\ UNCHANGED <<request, config, call_log, planner, helper_vars, client_vars, executor_vars, cache_vars, threads>>

\* edit_result = repo_manager.execute_edits(context, plan, user_request)
HandlerExecuteEdits ==
    /\ HandlerAt("planned")
    /\ request.endpoint = "execute"
    /\ \/ Begin
       \/ Modify
       \/ Create
       \/ Delete
       \/ Rename
       \/ OtherChangeType
       \/ Return

\* create_pull_request: branch creation, commit and push, pull-request
\* creation; an exception of any of them, and the steps after it skipped,
\* comes back as {"success": False, "error": ...}.
PublicationSteps == <<"create_branch", "commit_and_push", "create_pull_request">>

\* edit_result.branch_name = branch_name; edit_result.pr_url = pr.get('html_url')
Published(edit_result) ==
    [edit_result EXCEPT !.branch_name = "branch_name", !.pr_url = "html_url"]

\* (the result updated before the steps are run)
CreatePullRequestUpdatesFirst ==
    /\ result' = Published(result)
    /\ \/ /\ Log(PublicationSteps)
          /\ handler' = [handler EXCEPT !.pc = "published", !.pr_result = "success"]
       \/ \E failing \in 1..Len(PublicationSteps) :
             /\ Log(SubSeq(PublicationSteps, 1, failing))
             /\ handler' = [handler EXCEPT !.pc = "published", !.pr_result = "failed"]

CreatePullRequest ==
    \/ /\ Log(PublicationSteps)
       /\ result' = Published(result)
       /\ handler' = [handler EXCEPT !.pc = "published", !.pr_result = "success"]
    \/ \E failing \in 1..Len(PublicationSteps) :
          /\ Log(SubSeq(PublicationSteps, 1, failing))
          /\ UNCHANGED result
          /\ handler' = [handler EXCEPT !.pc = "published", !.pr_result = "failed"]

\* (the pull request asked for whatever execute_edits returned)
ShouldPublishAnyResult(data, edit_result) ==
    GetCreatePr(data) /\ config.safety_create_branch

\* if create_pr and edit_result.success and config.safety.create_branch:
ShouldPublish(data, edit_result) ==
    GetCreatePr(data) /\ edit_result.success /\ config.safety_create_branch

\*     pr_result = repo_manager.create_pull_request(...)
HandlerPublish ==
    /\ HandlerAt("planned")
    /\ request.endpoint = "execute"
    /\ pc = "done"
    /\ IF ShouldPublish(request, result)
       THEN CreatePullRequest
       ELSE /\ handler' = [handler EXCEPT !.pc = "published"]
            /\ UNCHANGED <<call_log, result>>
    /\ UNCHANGED <<pc, fs, plan, sorted_instructions, pos, changes, errors, warnings,
                   attempted, edit_calls, validations>>
    /\ UNCHANGED <<request, config, response, planner, helper_vars, client_vars, cache_vars, threads>>

Flag(b) == IF b THEN "true" ELSE "false"

\* (the publication failure folded into the success flag)
ExecuteResponseFolded(edit_result, pr_result, request_id) ==
    [Response(200, "", request_id,
              Flag(edit_result.success /\ pr_result # "failed")) EXCEPT
        !.pull_request = IF pr_result = "success" THEN "present" ELSE Missing,
        !.pull_request_error = Missing]

\* The result dict of the execute handler.
ExecuteResponse(edit_result, pr_result, request_id) ==
    [Response(200, "", request_id, Flag(edit_result.success)) EXCEPT
        !.pull_request = IF pr_result = "success" THEN "present" ELSE Missing,
        !.pull_request_error = IF pr_result = "failed" THEN "present" ELSE Missing]

\* repo_manager.cleanup(context); return jsonify(result)
HandlerFinish ==
    /\ HandlerAt("published")
    /\ CleanupContext(handler.context)
    /\ Log(<<"cleanup">>)
    /\ Respond(ExecuteResponse(result, handler.pr_result, handler.request_id))
    /\ UNCHANGED <<last_call, ncalls, request, config, planner, helper_vars, client_vars, executor_vars, threads>>

\* The preview loop: edit_file for the modify instructions, among the first
\* five, whose file exists; nothing is written.  An exception leaves the loop
\* for the except clause, which calls no cleanup.
PreviewEligible ==
    {k \in 1..Min(Len(plan), PreviewLimit) :
        plan[k].change_type = "modify" /\ Exists(plan[k].file_path)}
EditFileCalls(n) == [k \in 1..n |-> "edit_file"]
HandlerPreview ==
    /\ HandlerAt("planned")
    /\ request.endpoint = "preview"
    /\ \/ \E n \in 1..Cardinality(PreviewEligible) :
             /\ Log(EditFileCalls(n))
             /\ Respond(FailureResponse)
             /\ UNCHANGED cache_vars
       \/ /\ Log(EditFileCalls(Cardinality(PreviewEligible)) \o <<"cleanup">>)
          /\ CleanupContext(handler.context)
          /\ Respond(Response(200, "", handler.request_id, "true"))
          /\ UNCHANGED <<last_call, ncalls>>
    /\ UNCHANGED <<request, config, planner, helper_vars, client_vars, executor_vars, threads>>

\* The AI test handler: one edit_file call.
TestAi ==
    /\ HandlerAt("dispatch")
    /\ request.endpoint = "ai_test"
    /\ Log(<<"edit_file">>)
    /\ \/ Respond(Response(200, "", Missing, "true"))
       \/ Respond(FailureResponse)
    /\ UNCHANGED <<request, config, planner, helper_vars, client_vars, executor_vars, cache_vars, threads>>

(***************************************************************************)
(* CodeAnalyzer.detect_language(filename, content), on file names and      *)
(* contents written character by character.                                *)
(***************************************************************************)
\* LANGUAGE_EXTENSIONS
LanguageExtensions ==
    <<".", "p", "y">> :> "python" @@
    <<".", "j", "s">> :> "javascript" @@
    <<".", "j", "s", "x">> :> "javascript" @@
    <<".", "t", "s">> :> "typescript" @@
    <<".", "t", "s", "x">> :> "typescript" @@
    <<".", "j", "a", "v", "a">> :> "java" @@
    <<".", "c", "p", "p">> :> "cpp" @@
    <<".", "c">> :> "c" @@
    <<".", "c", "s">> :> "csharp" @@
    <<".", "g", "o">> :> "go" @@
    <<".", "r", "s">> :> "rust" @@
    <<".", "r", "b">> :> "ruby" @@
    <<".", "p", "h", "p">> :> "php" @@
    <<".", "s", "w", "i", "f", "t">> :> "swift" @@
    <<".", "k", "t">> :> "kotlin" @@
    <<".", "s", "c", "a", "l", "a">> :> "scala" @@
    <<".", "r">> :> "r" @@
    <<".", "m">> :> "matlab" @@
    <<".", "s", "q", "l">> :> "sql" @@
    <<".", "s", "h">> :> "shell" @@
    <<".", "b", "a", "s", "h">> :> "shell" @@
    <<".", "p", "s", "1">> :> "powershell" @@
    <<".", "h", "t", "m", "l">> :> "html" @@
    <<".", "c", "s", "s">> :> "css" @@
    <<".", "s", "c", "s", "s">> :> "scss" @@
    <<".", "s", "a", "s", "s">> :> "sass" @@
    <<".", "l", "e", "s", "s">> :> "less" @@
    <<".", "j", "s", "o", "n">> :> "json" @@
    <<".", "y", "a", "m", "l">> :> "yaml" @@
    <<".", "y", "m", "l">> :> "yaml" @@
    <<".", "x", "m", "l">> :> "xml" @@
    <<".", "m", "d">> :> "markdown" @@
    <<".", "t", "x", "t">> :> "text" @@
    <<".", "d", "o", "c", "k", "e", "r", "f", "i", "l", "e">> :> "dockerfile" @@
    <<".", "g", "i", "t", "i", "g", "n", "o", "r", "e">> :> "gitignore" @@
    <<".", "e", "n", "v">> :> "env"

\* str.lower(), on the letters
LowerCase ==
    "A" :> "a" @@ "B" :> "b" @@ "C" :> "c" @@ "D" :> "d" @@ "E" :> "e" @@ "F" :> "f" @@ "G" :> "g" @@ "H" :> "h" @@ "I" :> "i" @@ "J" :> "j" @@ "K" :> "k" @@ "L" :> "l" @@ "M" :> "m" @@ "N" :> "n" @@ "O" :> "o" @@ "P" :> "p" @@ "Q" :> "q" @@ "R" :> "r" @@ "S" :> "s" @@ "T" :> "t" @@ "U" :> "u" @@ "V" :> "v" @@ "W" :> "w" @@ "X" :> "x" @@ "Y" :> "y" @@ "Z" :> "z"
Lower(s) == [k \in 1..Len(s) |-> IF s[k] \in DOMAIN LowerCase THEN LowerCase[s[k]] ELSE s[k]]

\* str.rfind(ch) + 1: the last position of ch in s, 0 when there is none
LastIndexOf(s, ch) ==
    IF \E k \in 1..Len(s) : s[k] = ch
    THEN CHOOSE k \in 1..Len(s) : s[k] = ch /\ \A j \in (k + 1)..Len(s) : s[j] # ch
    ELSE 0

\* Path(filename).suffix: the last component from its last dot on, when that
\* dot is neither its first nor its last character.
Suffix(filename) ==
    LET name == SubSeq(filename, LastIndexOf(filename, "/") + 1, Len(filename))
        dot == LastIndexOf(name, ".")
    IN  IF 1 < dot /\ dot < Len(name) THEN SubSeq(name, dot, Len(name)) ELSE <<>>

Whitespace == {" ", "\t", "\r", "\n"}
RECURSIVE Strip(_)
Strip(s) ==
    IF s = <<>> THEN s
    ELSE IF s[1] \in Whitespace THEN Strip(Tail(s))
    ELSE IF s[Len(s)] \in Whitespace THEN Strip(SubSeq(s, 1, Len(s) - 1))
    ELSE s

\* content.split('\n')[0].strip()
FirstLine(content) ==
    LET ends == {k \in 1..Len(content) : content[k] = "\n"}
        first == IF ends = {} THEN Len(content) + 1
                 ELSE CHOOSE k \in ends : \A j \in ends : k <= j
    IN  Strip(SubSeq(content, 1, first - 1))

StartsWith(s, prefix) == Len(s) >= Len(prefix) /\ SubSeq(s, 1, Len(prefix)) = prefix

\* shebang_mapping, in the order of the dict
ShebangMapping ==
    << [lang |-> "python", interpreters |-> <<<<"p", "y", "t", "h", "o", "n">>, <<"p", "y", "t", "h", "o", "n", "2">>, <<"p", "y", "t", "h", "o", "n", "3">>>>],
       [lang |-> "bash", interpreters |-> <<<<"b", "a", "s", "h">>, <<"s", "h">>>>],
       [lang |-> "node", interpreters |-> <<<<"n", "o", "d", "e">>>>],
       [lang |-> "ruby", interpreters |-> <<<<"r", "u", "b", "y">>>>],
       [lang |-> "perl", interpreters |-> <<<<"p", "e", "r", "l">>>>],
       [lang |-> "php", interpreters |-> <<<<"p", "h", "p">>>>] >>

NoLanguage == "<none>"

\* The language of the first entry of shebang_mapping one of whose
\* interpreters occurs in the first line, when that line starts with #!.
ShebangLanguage(content) ==
    LET first_line == FirstLine(content)
        matching == SelectSeq(ShebangMapping,
                        LAMBDA entry : \E k \in 1..Len(entry.interpreters) :
                                          Search(entry.interpreters[k], first_line))
    IN  IF StartsWith(first_line, <<"#", "!">>) /\ matching # <<>>
        THEN matching[1].lang ELSE NoLanguage

\* The filename patterns.
PatternLanguage(filename) ==
    LET filename_lower == Lower(filename)
    IN  IF Search(<<"d", "o", "c", "k", "e", "r", "f", "i", "l", "e">>, filename_lower) THEN "dockerfile"
        ELSE IF Search(<<"m", "a", "k", "e", "f", "i", "l", "e">>, filename_lower) THEN "makefile"
        ELSE IF filename_lower = <<".", "g", "i", "t", "i", "g", "n", "o", "r", "e">> THEN "gitignore"
        ELSE IF filename_lower = <<".", "e", "n", "v">> THEN "env"
        ELSE NoLanguage

\* content=None
NoContent == <<"<None>">>

\* (the fallback tag replaced by the table's tag for plain text)
DetectLanguageFallsBackToText(filename, content) ==
    LET ext == Lower(Suffix(filename))
    IN  IF ext \in DOMAIN LanguageExtensions THEN LanguageExtensions[ext]
        ELSE IF content # NoContent /\ content # <<>> /\ ShebangLanguage(content) # NoLanguage
        THEN ShebangLanguage(content)
        ELSE IF PatternLanguage(filename) # NoLanguage THEN PatternLanguage(filename)
        ELSE "text"

\* (the shebang consulted before the extension table)
DetectLanguageShebangFirst(filename, content) ==
    LET ext == Lower(Suffix(filename))
    IN  IF content # NoContent /\ content # <<>> /\ ShebangLanguage(content) # NoLanguage
        THEN ShebangLanguage(content)
        ELSE IF ext \in DOMAIN LanguageExtensions THEN LanguageExtensions[ext]
        ELSE IF PatternLanguage(filename) # NoLanguage THEN PatternLanguage(filename)
        ELSE "unknown"

DetectLanguage(filename, content) ==
    LET ext == Lower(Suffix(filename))
    IN  IF ext \in DOMAIN LanguageExtensions THEN LanguageExtensions[ext]
        ELSE IF content # NoContent /\ content # <<>> /\ ShebangLanguage(content) # NoLanguage
        THEN ShebangLanguage(content)
        ELSE IF PatternLanguage(filename) # NoLanguage THEN PatternLanguage(filename)
        ELSE "unknown"

\* The file names and the contents detect_language is called with.
Filenames ==
    { <<"t", "e", "s", "t", ".", "p", "y">>,
      <<"a", ".", "P", "Y">>,
      <<"s", "c", "r", "i", "p", "t">>,
      <<"D", "o", "c", "k", "e", "r", "f", "i", "l", "e">>,
      <<"D", "o", "c", "k", "e", "r", "f", "i", "l", "e", ".", "p", "y">>,
      <<"M", "a", "k", "e", "f", "i", "l", "e">>,
      <<"m", "a", "k", "e", "f", "i", "l", "e", ".", "j", "s">>,
      <<".", "g", "i", "t", "i", "g", "n", "o", "r", "e">>,
      <<".", "e", "n", "v">>,
      <<"r", "u", "n", ".", "s", "h">>,
      <<"s", "r", "c", "/", "a", ".", "p", "y">>,
      <<"a", ".", "b", "/", "c">>,
      <<"f", ".">>,
      <<"n", "o", "t", "e", "s", ".", "x", "y", "z">> }
Contents ==
    { NoContent, <<>>,
      <<"#", "!", "/", "u", "s", "r", "/", "b", "i", "n", "/", "e", "n", "v", " ", "p", "y", "t", "h", "o", "n", "3", "\n", "p", "r", "i", "n", "t", "(", ")">>,
      <<"#", "!", "/", "b", "i", "n", "/", "b", "a", "s", "h", "\n", "e", "c", "h", "o">>,
      <<" ", " ", "#", "!", "/", "b", "i", "n", "/", "s", "h">>,
      <<"p", "r", "i", "n", "t", "(", ")">>,
      <<"#", "!", "/", "u", "s", "r", "/", "b", "i", "n", "/", "a", "w", "k", " ", "-", "f">>,
      <<"\n", "#", "!", "/", "b", "i", "n", "/", "s", "h">> }

IdleDetector == [pc |-> "idle", filename |-> <<>>, content |-> NoContent, language |-> ""]

DetectLanguageCall ==
    /\ detector.pc = "called"
    /\ detector' = [detector EXCEPT
                       !.pc = "returned",
                       !.language = DetectLanguage(detector.filename, detector.content)]
    /\ UNCHANGED <<executor_vars, cache_vars, threads, planner, request_vars, client_vars, comparer, url_parser, branch_namer>>

(***************************************************************************)
(* CodeAnalyzer.compare_files(old_content, new_content), on contents       *)
(* written character by character.                                         *)
(***************************************************************************)
MaxContentLen == 3
ContentChars == {"a", "b", "\n"}
ComparedContents == UNION {[1..n -> ContentChars] : n \in 0..MaxContentLen}

\* str.split(sep) for one-character separators: the pieces between the
\* separators, empty pieces included.
RECURSIVE SplitAt(_, _, _)
SplitAt(s, separators, piece) ==
    IF s = <<>> THEN <<piece>>
    ELSE IF s[1] \in separators THEN <<piece>> \o SplitAt(Tail(s), separators, <<>>)
    ELSE SplitAt(Tail(s), separators, Append(piece, s[1]))
\* content.split('\n')
SplitLines(content) == SplitAt(content, {"\n"}, <<>>)
\* content.split(): the pieces between runs of whitespace, none empty
SplitWords(content) == SelectSeq(SplitAt(content, Whitespace, <<>>), LAMBDA w : w # <<>>)
\* set(lines)
SetOf(seq) == {seq[k] : k \in 1..Len(seq)}

\* difflib.SequenceMatcher.find_longest_match on a[alo..ahi] and b[blo..bhi]:
\* a longest common block, the earliest in a and then the earliest in b;
\* <<alo, blo, 0>> when there is none.
FindLongestMatch(a, b, alo, ahi, blo, bhi) ==
    LET blocks == {m \in (alo..ahi) \X (blo..bhi) \X (1..Len(a)) :
                      /\ m[1] + m[3] - 1 <= ahi
                      /\ m[2] + m[3] - 1 <= bhi
                      /\ \A d \in 0..(m[3] - 1) : a[m[1] + d] = b[m[2] + d]}
    IN  IF blocks = {} THEN <<alo, blo, 0>>
        ELSE CHOOSE m \in blocks : \A o \in blocks :
                \/ m[3] > o[3]
                \/ m[3] = o[3] /\ m[1] < o[1]
                \/ m[3] = o[3] /\ m[1] = o[1] /\ m[2] <= o[2]
\* The total size of SequenceMatcher.get_matching_blocks: the longest match,
\* then the matches to its left and to its right.
RECURSIVE MatchingSize(_, _, _, _, _, _)
MatchingSize(a, b, alo, ahi, blo, bhi) ==
    LET m == FindLongestMatch(a, b, alo, ahi, blo, bhi)
    IN  IF m[3] = 0 THEN 0
        ELSE m[3] + MatchingSize(a, b, alo, m[1] - 1, blo, m[2] - 1)
                  + MatchingSize(a, b, m[1] + m[3], ahi, m[2] + m[3], bhi)
\* A float in [0, 1] as a fraction in lowest terms.
RECURSIVE Gcd(_, _)
Gcd(m, n) == IF n = 0 THEN m ELSE Gcd(n, m % n)
Fraction(m, n) == [num |-> m \div Gcd(m, n), den |-> n \div Gcd(m, n)]
One == Fraction(1, 1)
\* SequenceMatcher(None, a, b).ratio(): 2.0 * matches / length, 1.0 for two
\* empty sequences.
Ratio(a, b) ==
    IF Len(a) + Len(b) = 0 THEN One
    ELSE Fraction(2 * MatchingSize(a, b, 1, Len(a), 1, Len(b)), Len(a) + Len(b))

\* (the identity shortcut left out)
CompareFilesAlwaysDiffs(old_content, new_content) ==
    LET added == SetOf(SplitLines(new_content)) \ SetOf(SplitLines(old_content))
        removed == SetOf(SplitLines(old_content)) \ SetOf(SplitLines(new_content))
    IN  [changed |-> TRUE,
         additions |-> Cardinality(added),
         deletions |-> Cardinality(removed),
         similarity |-> Ratio(SplitWords(old_content), SplitWords(new_content)),
         added_lines |-> added,
         removed_lines |-> removed]

\* (the lines counted with their repetitions)
CompareFilesCountsRepetitions(old_content, new_content) ==
    LET old_lines == SplitLines(old_content)
        new_lines == SplitLines(new_content)
        added == SelectSeq(new_lines, LAMBDA l : l \notin SetOf(old_lines))
        removed == SelectSeq(old_lines, LAMBDA l : l \notin SetOf(new_lines))
    IN  IF old_content = new_content
        THEN [changed |-> FALSE, additions |-> 0, deletions |-> 0, similarity |-> One]
        ELSE [changed |-> TRUE,
              additions |-> Len(added),
              deletions |-> Len(removed),
              similarity |-> Ratio(SplitWords(old_content), SplitWords(new_content)),
              added_lines |-> SetOf(added),
              removed_lines |-> SetOf(removed)]

\* added_lines and removed_lines hold at most ten lines; the contents here
\* have fewer lines, so the lists hold every line of the two sets.
CompareFiles(old_content, new_content) ==
    LET old_lines == SplitLines(old_content)
        new_lines == SplitLines(new_content)
        added == SetOf(new_lines) \ SetOf(old_lines)
        removed == SetOf(old_lines) \ SetOf(new_lines)
    IN  IF old_content = new_content
        THEN [changed |-> FALSE, additions |-> 0, deletions |-> 0, similarity |-> One]
        ELSE [changed |-> TRUE,
              additions |-> Cardinality(added),
              deletions |-> Cardinality(removed),
              similarity |-> Ratio(SplitWords(old_content), SplitWords(new_content)),
              added_lines |-> added,
              removed_lines |-> removed]

NoComparison == [changed |-> FALSE, additions |-> -1, deletions |-> -1, similarity |-> One]
IdleComparer ==
    [pc |-> "idle", old_content |-> <<>>, new_content |-> <<>>,
     comparison |-> NoComparison, swapped |-> NoComparison]

\* compare_files(old_content, new_content)
CompareFilesCall ==
    /\ comparer.pc = "called"
    /\ comparer' = [comparer EXCEPT
                       !.pc = "compared",
                       !.comparison = CompareFiles(comparer.old_content, comparer.new_content)]
    /\ UNCHANGED <<executor_vars, cache_vars, threads, planner, request_vars, client_vars, detector, url_parser, branch_namer>>

\* compare_files(new_content, old_content): the same contents, swapped
CompareFilesSwappedCall ==
    /\ comparer.pc = "compared"
    /\ comparer' = [comparer EXCEPT
                       !.pc = "returned",
                       !.swapped = CompareFiles(comparer.new_content, comparer.old_content)]
    /\ UNCHANGED <<executor_vars, cache_vars, threads, planner, request_vars, client_vars, detector, url_parser, branch_namer>>

(***************************************************************************)
(* GitHubClient.parse_repo_url(url), on URLs written character by          *)
(* character.                                                              *)
(***************************************************************************)
\* str.rstrip(chars) and str.strip(chars): chars is a set of characters
RECURSIVE RStripChars(_, _)
RStripChars(s, chars) ==
    IF s # <<>> /\ s[Len(s)] \in chars THEN RStripChars(SubSeq(s, 1, Len(s) - 1), chars) ELSE s
RECURSIVE LStripChars(_, _)
LStripChars(s, chars) ==
    IF s # <<>> /\ s[1] \in chars THEN LStripChars(Tail(s), chars) ELSE s
StripChars(s, chars) == LStripChars(RStripChars(s, chars), chars)

\* The first position of a character of chars in s from position from on,
\* Len(s) + 1 when there is none.
FirstIndexOf(s, chars, from) ==
    LET found == {k \in from..Len(s) : s[k] \in chars}
    IN  IF found = {} THEN Len(s) + 1 ELSE CHOOSE k \in found : \A j \in found : k <= j

\* urllib.parse: the characters of a scheme
SchemeChars ==
    {"a", "b", "c", "d", "e", "f", "g", "h", "i", "j", "k", "l", "m", "n", "o", "p", "q", "r",
     "s", "t", "u", "v", "w", "x", "y", "z",
     "A", "B", "C", "D", "E", "F", "G", "H", "I", "J", "K", "L", "M", "N", "O", "P", "Q", "R",
     "S", "T", "U", "V", "W", "X", "Y", "Z",
     "0", "1", "2", "3", "4", "5", "6", "7", "8", "9", "+", "-", "."}
Digits == {"0", "1", "2", "3", "4", "5", "6", "7", "8", "9"}
\* urlparse(url).path: what follows the scheme (the characters before the
\* first colon, when they are scheme characters and the first is a letter)
\* and the network location (after //, up to the next /, ? or #), up to the
\* first ? or #.
UrlPath(url) ==
    LET colon == FirstIndexOf(url, {":"}, 1)
        has_scheme == /\ 1 < colon /\ colon <= Len(url)
                      /\ url[1] \in SchemeChars \ (Digits \cup {"+", "-", "."})
                      /\ \A k \in 1..(colon - 1) : url[k] \in SchemeChars
        rest == IF has_scheme THEN SubSeq(url, colon + 1, Len(url)) ELSE url
        after_netloc == IF StartsWith(rest, <<"/", "/">>)
                        THEN SubSeq(rest, FirstIndexOf(rest, {"/", "?", "#"}, 3), Len(rest))
                        ELSE rest
    IN  SubSeq(after_netloc, 1, FirstIndexOf(after_netloc, {"?", "#"}, 1) - 1)

NoName == <<"<None>">>
\* url.rstrip('/').rstrip('.git'), then the first two parts of the path
ParseRepoUrl(url) ==
    LET stripped == RStripChars(RStripChars(url, {"/"}), {".", "g", "i", "t"})
        path_parts == SplitAt(StripChars(UrlPath(stripped), {"/"}), {"/"}, <<>>)
    IN  IF Len(path_parts) < 2
        THEN [outcome |-> "ValueError", owner |-> NoName, repo_name |-> NoName]
        ELSE [outcome |-> "returned", owner |-> path_parts[1], repo_name |-> path_parts[2]]

\* The owners, the repository names and the forms of a repository URL.
Owners == {<<"o">>, <<"o", "w", "n", "e", "r">>, <<"g", "i", "t">>, <<"a", "-", "b">>}
RepositoryNames ==
    {<<"r">>, <<"r", "e", "p", "o">>, <<"d", "i", "g", "i", "t">>, <<"g", "i", "t">>,
     <<"a", ".", "b">>, <<"H", "e", "l", "l", "o", "-", "W", "o", "r", "l", "d">>}
UrlForms == {"https", "https.git", "ssh.git"}
RepoUrl(form, owner, repo_name) ==
    CASE form = "https" ->
            <<"h", "t", "t", "p", "s", ":", "/", "/", "g", "i", "t", "h", "u", "b", ".", "c", "o", "m", "/">>
                \o owner \o <<"/">> \o repo_name
      [] form = "https.git" ->
            <<"h", "t", "t", "p", "s", ":", "/", "/", "g", "i", "t", "h", "u", "b", ".", "c", "o", "m", "/">>
                \o owner \o <<"/">> \o repo_name \o <<".", "g", "i", "t">>
      [] form = "ssh.git" ->
            <<"g", "i", "t", "@", "g", "i", "t", "h", "u", "b", ".", "c", "o", "m", ":">>
                \o owner \o <<"/">> \o repo_name \o <<".", "g", "i", "t">>

IdleUrlParser ==
    [pc |-> "idle", form |-> "", owner |-> NoName, repo_name |-> NoName, url |-> <<>>,
     parsed |-> [outcome |-> "", owner |-> NoName, repo_name |-> NoName]]

ParseRepoUrlCall ==
    /\ url_parser.pc = "called"
    /\ url_parser' = [url_parser EXCEPT !.pc = "returned", !.parsed = ParseRepoUrl(url_parser.url)]
    /\ UNCHANGED <<executor_vars, cache_vars, threads, planner, request_vars, client_vars, detector, comparer, branch_namer>>

(***************************************************************************)
(* RepositoryManager.generate_branch_name(user_request), on request texts  *)
(* written character by character, under a clock that counts the seconds   *)
(* of local time.                                                          *)
(***************************************************************************)
MaxBranchNames == 2
MaxTicks == 2
BranchWords == 4
BranchNameLimit == 50

Letters == DOMAIN LowerCase \cup {LowerCase[c] : c \in DOMAIN LowerCase}
\* re.sub(r'[^a-zA-Z0-9\s-]', '', user_request)
CleanRequest(user_request) ==
    SelectSeq(user_request, LAMBDA c : c \in Letters \cup Digits \cup Whitespace \cup {"-"})
\* "-".join(words)
RECURSIVE Join(_)
Join(words) ==
    IF words = <<>> THEN <<>>
    ELSE IF Len(words) = 1 THEN words[1]
    ELSE words[1] \o <<"-">> \o Join(Tail(words))
\* s[:n]
Truncate(s, n) == SubSeq(s, 1, Min(Len(s), n))

\* datetime.now(): the local date, as an index into the days of the
\* calendar, and the seconds of the day.
SecondsPerDay == 24 * 60 * 60
Calendar == << <<"2", "0", "2", "4", "1", "2", "3", "1">>,
               <<"2", "0", "2", "5", "0", "1", "0", "1">> >>
DigitOf == <<"0", "1", "2", "3", "4", "5", "6", "7", "8", "9">>
TwoDigits(n) == <<DigitOf[(n \div 10) + 1], DigitOf[(n % 10) + 1]>>
\* strftime("%Y%m%d-%H%M%S")
Timestamp(now) ==
    Calendar[now.day] \o <<"-">> \o TwoDigits(now.seconds \div 3600)
        \o TwoDigits((now.seconds % 3600) \div 60) \o TwoDigits(now.seconds % 60)

GenerateBranchName(user_request, now) ==
    LET clean_request == Lower(Strip(CleanRequest(user_request)))
        words == Truncate(SplitWords(clean_request), BranchWords)
        branch_name == Truncate(<<"a", "i", "-", "e", "d", "i", "t", "-">> \o Join(words),
                                BranchNameLimit)
    IN  branch_name \o <<"-">> \o Timestamp(now)

\* The request texts generate_branch_name is called with.
UserRequests ==
    { <<"F", "i", "x", " ", "b", "u", "g">>,
      <<"f", "i", "x", " ", " ", "b", "u", "g", "!">>,
      <<"a", " ", "b", " ", "c", " ", "d", " ", "e">>,
      <<"a", " ", "b", " ", "c", " ", "d", " ", "f">>,
      <<"A", "d", "d", " ", "t", "e", "s", "t", "s">>,
      <<"C", "o", "m", "p", "l", "e", "t", "e", "l", "y", " ", "r", "e", "f", "a", "c", "t", "o", "r", " ", "a", "u", "t", "h", "e", "n", "t", "i", "c", "a", "t", "i", "o", "n", "-", "m", "i", "d", "d", "l", "e", "w", "a", "r", "e", "-", "a", "n", "d", "-", "s", "e", "s", "s", "i", "o", "n", "-", "s", "t", "o", "r", "e", " ", "n", "o", "w">>,
      <<"C", "o", "m", "p", "l", "e", "t", "e", "l", "y", " ", "r", "e", "f", "a", "c", "t", "o", "r", " ", "a", "u", "t", "h", "e", "n", "t", "i", "c", "a", "t", "i", "o", "n", "-", "m", "i", "d", "d", "l", "e", "w", "a", "r", "e", "-", "a", "n", "d", "-", "s", "e", "s", "s", "i", "o", "n", "-", "c", "a", "c", "h", "e", " ", "n", "o", "w">> }
\* The clock starts at noon or one second before midnight.
StartTimes == {[day |-> 1, seconds |-> SecondsPerDay - 1], [day |-> 1, seconds |-> 43200]}

IdleBranchNamer == [now |-> [day |-> 1, seconds |-> 0], ticks |-> 0, calls |-> <<>>]

\* A call of generate_branch_name; nothing makes a second of the clock pass
\* between two calls.
GenerateBranchNameCall ==
    /\ Len(branch_namer.calls) < MaxBranchNames
    /\ \E user_request \in UserRequests :
          branch_namer' = [branch_namer EXCEPT
              !.calls = Append(@, [user_request |-> user_request,
                                   at |-> branch_namer.ticks,
                                   branch_name |-> GenerateBranchName(user_request, branch_namer.now)])]
    /\ UNCHANGED <<executor_vars, cache_vars, threads, planner, request_vars, client_vars, detector, comparer, url_parser>>

\* A second passes.
Tick ==
    /\ branch_namer.ticks < MaxTicks
    /\ branch_namer.now.seconds + 1 < SecondsPerDay \/ branch_namer.now.day < Len(Calendar)
    /\ branch_namer' = [branch_namer EXCEPT
          !.ticks = @ + 1,
          !.now = IF branch_namer.now.seconds + 1 < SecondsPerDay
                  THEN [day |-> branch_namer.now.day, seconds |-> branch_namer.now.seconds + 1]
                  ELSE [day |-> branch_namer.now.day + 1, seconds |-> 0]]
    /\ UNCHANGED <<executor_vars, cache_vars, threads, planner, request_vars, client_vars, detector, comparer, url_parser>>

(***************************************************************************)
(* GitHubClient.create_branch(owner, repo, branch_name, from_branch),      *)
(* against a remote repository whose refs are part of the state.           *)
(***************************************************************************)
\* The branch asked for, the source branches it is asked from, and the
\* branches the remote repository can have when the call starts.
NewBranch == "ai-edit"
SourceBranches == {"main", "master", "develop"}
RemoteBranches == {"main", "master", NewBranch}
Sha(branch) == <<"sha", branch>>
NoSha == <<"sha", "<None>">>
RemoteRefs == {[b \in branches |-> Sha(b)] : branches \in SUBSET RemoteBranches}

\* What requests.get or requests.post comes back with: a response with a
\* status and, for a ref, its sha; or no response (ConnectionError, Timeout).
Answer(responded, status, sha) == [responded |-> responded, status |-> status, sha |-> sha]
NoAnswer == Answer(FALSE, 0, NoSha)

\* The answers to GET git/refs/heads/<ref>: what the repository has, a body
\* without object.sha, a refusal, a server error, or no response.
LookupAnswers(refs, ref) ==
    {IF ref \in DOMAIN refs THEN Answer(TRUE, 200, refs[ref]) ELSE Answer(TRUE, 404, NoSha)}
        \cup {Answer(TRUE, 200, NoSha), Answer(TRUE, 403, NoSha), Answer(TRUE, 500, NoSha),
              NoAnswer}

\* The answers to POST git/refs: 422 for a ref that exists, 201 otherwise;
\* or a refusal, a server error, no response.
CreationAnswers(refs, branch_name) ==
    {IF branch_name \in DOMAIN refs THEN Answer(TRUE, 422, NoSha)
                                   ELSE Answer(TRUE, 201, NoSha)}
        \cup {Answer(TRUE, 403, NoSha), Answer(TRUE, 500, NoSha), NoAnswer}

\* response.raise_for_status() raises HTTPError
RaisesForStatus(answer) == answer.responded /\ answer.status >= 400

\* sha = ref_data['object']['sha'] is reached and finds the sha
LookupSucceeded(answer) ==
    answer.responded /\ ~RaisesForStatus(answer) /\ answer.sha # NoSha

\* (the fallback taken for every HTTP error)
RetriesLookupOnAnyStatus(answer) == RaisesForStatus(answer)

\* except requests.exceptions.HTTPError as e: if e.response.status_code == 404
RetriesLookup(answer) == RaisesForStatus(answer) /\ answer.status = 404

HttpRequest(method, ref, answer) == [method |-> method, ref |-> ref, answer |-> answer]

IdleBranchCreator ==
    [pc |-> "idle", from_branch |-> "", initial_refs |-> <<>>, refs |-> <<>>,
     requests |-> <<>>, sha |-> NoSha, result |-> "none"]

CreatorAt(at) == branch_creator.pc = at
CreatorUnchanged ==
    UNCHANGED <<executor_vars, cache_vars, threads, planner, request_vars, helper_vars,
                retrier, path_writer>>

\* create_branch is called.
CreateBranchEnter ==
    /\ CreatorAt("idle")
    /\ \E from_branch \in SourceBranches :
          branch_creator' = [branch_creator EXCEPT !.pc = "lookup", !.from_branch = from_branch]
    /\ CreatorUnchanged

\* The lookup of the source branch: on success the sha is kept; on a 404
\* the except clause goes on to the fallback; anything else is raised.
LookupHead ==
    /\ CreatorAt("lookup")
    /\ \E answer \in LookupAnswers(branch_creator.refs, branch_creator.from_branch) :
          branch_creator' = [branch_creator EXCEPT
              !.requests = Append(@, HttpRequest("GET", branch_creator.from_branch, answer)),
              !.sha = IF LookupSucceeded(answer) THEN answer.sha ELSE @,
              !.pc = IF LookupSucceeded(answer) THEN "create"
                     ELSE IF RetriesLookup(answer) THEN "retry" ELSE "done",
              !.result = IF LookupSucceeded(answer) \/ RetriesLookup(answer)
                         THEN @ ELSE "raised"]
    /\ CreatorUnchanged

\* The fallback inside the except clause: the lookup of 'master', whose
\* failures nothing catches.
RetryLookup ==
    /\ CreatorAt("retry")
    /\ \E answer \in LookupAnswers(branch_creator.refs, "master") :
          branch_creator' = [branch_creator EXCEPT
              !.requests = Append(@, HttpRequest("GET", "master", answer)),
              !.sha = IF LookupSucceeded(answer) THEN answer.sha ELSE @,
              !.pc = IF LookupSucceeded(answer) THEN "create" ELSE "done",
              !.result = IF LookupSucceeded(answer) THEN @ ELSE "raised"]
    /\ CreatorUnchanged

\* The creation of the ref: 422 returns {"status": "exists", ...} before
\* raise_for_status; any other failure is logged and raised.
CreateRef ==
    /\ CreatorAt("create")
    /\ \E answer \in CreationAnswers(branch_creator.refs, NewBranch) :
          branch_creator' = [branch_creator EXCEPT
              !.requests = Append(@, HttpRequest("POST", NewBranch, answer)),
              !.pc = "done",
              !.refs = IF answer.responded /\ answer.status = 201
                       THEN [b \in DOMAIN @ \cup {NewBranch} |->
                                IF b = NewBranch THEN branch_creator.sha ELSE @[b]]
                       ELSE @,
              !.result = IF answer.responded /\ answer.status = 422 THEN "exists"
                         ELSE IF ~answer.responded \/ RaisesForStatus(answer) THEN "raised"
                         ELSE "created"]
    /\ CreatorUnchanged

(***************************************************************************)
(* utils.retry_operation(operation, max_retries, delay, exceptions)        *)
(***************************************************************************)
MaxRetries == 2

\* The values of max_retries, the exception types the caller lists, the
\* types the operation can raise besides, and the values it can return.
MaxRetriesValues == -1..MaxRetries
ListedExceptions == {"ConnectionError", "Timeout", "HTTPError"}
UnlistedExceptions == {"KeyError"}
OperationValues == {"value"}

\* What one invocation of the operation does, and the exception raised by
\* the invocation of a given attempt.
Raised(type, attempt) == [type |-> type, attempt |-> attempt]
NoException == Raised("<None>", -1)
Invocation(outcome, value, exception) ==
    [outcome |-> outcome, value |-> value, exception |-> exception]
Invocations(attempt) ==
    {Invocation("returned", v, NoException) : v \in OperationValues}
        \cup {Invocation("raised", "<None>", Raised(t, attempt)) :
                 t \in ListedExceptions \cup UnlistedExceptions}

\* (every exception caught)
CatchesEverything(exception) == TRUE

\* except exceptions as e
Catches(exception) == exception.type \in ListedExceptions

IdleRetrier ==
    [pc |-> "idle", max_retries |-> 0, attempt |-> 0, invocations |-> <<>>,
     last_exception |-> NoException, sleeps |-> <<>>,
     result |-> Invocation("none", "<None>", NoException)]

RetrierAt(at) == retrier.pc = at
RetrierUnchanged ==
    UNCHANGED <<executor_vars, cache_vars, threads, planner, request_vars, helper_vars,
                branch_creator, path_writer>>

\* retry_operation is called: last_exception = None
RetryOperationEnter ==
    /\ RetrierAt("idle")
    /\ \E max_retries \in MaxRetriesValues :
          retrier' = [retrier EXCEPT !.pc = "loop", !.max_retries = max_retries]
    /\ RetrierUnchanged

\* One iteration of for attempt in range(max_retries + 1): the operation
\* returns, and so does retry_operation; or it raises a listed exception,
\* which is kept, with a sleep of delay * 2 ** attempt unless this was the
\* last attempt; or it raises another exception, which nothing catches.
RetryAttempt ==
    /\ RetrierAt("loop")
    /\ retrier.attempt < retrier.max_retries + 1
    /\ \E invocation \in Invocations(retrier.attempt) :
          retrier' =
             IF invocation.outcome = "returned" \/ ~Catches(invocation.exception)
             THEN [retrier EXCEPT !.invocations = Append(@, invocation),
                                  !.pc = "done",
                                  !.result = invocation]
             ELSE [retrier EXCEPT !.invocations = Append(@, invocation),
                                  !.last_exception = invocation.exception,
                                  !.sleeps = IF retrier.attempt < retrier.max_retries
                                             THEN Append(@, 2 ^ retrier.attempt) ELSE @,
                                  !.attempt = @ + 1]
    /\ RetrierUnchanged

\* raise last_exception, after the loop; with no attempt made it is None and
\* the raise statement raises TypeError.
RaiseLastException ==
    /\ RetrierAt("loop")
    /\ retrier.attempt >= retrier.max_retries + 1
    /\ retrier' = [retrier EXCEPT
          !.pc = "done",
          !.result = Invocation("raised", "<None>",
                                IF retrier.last_exception = NoException
                                THEN Raised("TypeError", -1)
                                ELSE retrier.last_exception)]
    /\ RetrierUnchanged

(***************************************************************************)
(* The files execute_edits touches: full_path = Path(context.local_path) / *)
(* file_path, and the write, creation or deletion at full_path.  A path is *)
(* a list of components, absolute or relative to the process's directory.  *)
(***************************************************************************)
MaxWrites == 2

FsPath(absolute, parts) == [absolute |-> absolute, parts |-> parts]
WorkingDirectory == <<"srv", "app">>
\* local_path = Path(tempfile.mkdtemp(dir=Path("temp/repos"))) / repo_name
LocalPath == FsPath(FALSE, <<"temp", "repos", "github_ai_1", "r">>)

\* The file_path values of the planner's instructions: instr.get("file_path")
\* is kept as the planning service wrote it.
InstructionPaths ==
    { FsPath(FALSE, <<"a.py">>),
      FsPath(FALSE, <<"docs", "b.md">>),
      FsPath(FALSE, <<"docs", "..", "a.py">>),
      FsPath(FALSE, <<".git", "config">>),
      FsPath(FALSE, <<"..", "x.py">>),
      FsPath(FALSE, <<"..", "..", "..", "..", "app.py">>),
      FsPath(TRUE, <<"etc", "p">>),
      FsPath(TRUE, WorkingDirectory \o LocalPath.parts \o <<"a.py">>) }

\* pathlib's base / path: an absolute right operand replaces the left one;
\* '..' components are kept as they are.
PathJoin(base, path) ==
    IF path.absolute THEN path ELSE FsPath(base.absolute, base.parts \o path.parts)

\* The file the operating system finds at a path: relative paths start at
\* the working directory, '..' leaves a directory (the root stays the root).
RECURSIVE Normalize(_, _)
Normalize(done, parts) ==
    IF parts = <<>> THEN done
    ELSE IF parts[1] = ".."
         THEN Normalize(IF done = <<>> THEN <<>> ELSE SubSeq(done, 1, Len(done) - 1),
                        Tail(parts))
         ELSE Normalize(Append(done, parts[1]), Tail(parts))
Resolve(path) ==
    Normalize(<<>>, IF path.absolute THEN path.parts ELSE WorkingDirectory \o path.parts)

\* The files that exist when execute_edits starts, in and out of the
\* working copy.
ExistingFiles ==
    { Resolve(PathJoin(LocalPath, FsPath(FALSE, <<"a.py">>))),
      Resolve(PathJoin(LocalPath, FsPath(FALSE, <<".git", "config">>))),
      <<"etc", "p">>,
      <<"srv", "app", "app.py">> }

Touch(operation, file) == [operation |-> operation, file |-> file]

IdlePathWriter == [files |-> ExistingFiles, touched |-> <<>>]

\* One iteration of the loop, as far as the file system goes: modify writes
\* the file when it exists (and the generated content is valid), create
\* makes the parent directories and writes the file, delete unlinks the
\* file when it exists.
ExecuteOnPath ==
    /\ Len(path_writer.touched) < MaxWrites
    /\ \E file_path \in InstructionPaths, change_type \in {"modify", "create", "delete"},
          is_valid \in BOOLEAN :
          LET full_path == Resolve(PathJoin(LocalPath, file_path))
              exists == full_path \in path_writer.files
          IN  /\ change_type = "modify" => exists
              /\ change_type # "modify" => is_valid
              /\ path_writer' =
                    CASE change_type = "modify" /\ is_valid ->
                            [path_writer EXCEPT !.touched = Append(@, Touch("write", full_path))]
                      [] change_type = "modify" /\ ~is_valid ->
                            [path_writer EXCEPT !.touched = Append(@, Touch("none", full_path))]
                      [] change_type = "create" ->
                            [path_writer EXCEPT
                                !.files = @ \cup {full_path},
                                !.touched = Append(@, Touch("create", full_path))]
                      [] change_type = "delete" ->
                            [path_writer EXCEPT
                                !.files = @ \ {full_path},
                                !.touched = Append(@, Touch(IF exists THEN "unlink" ELSE "none",
                                                            full_path))]
    /\ UNCHANGED <<executor_vars, cache_vars, threads, planner, request_vars, helper_vars,
                   branch_creator, retrier>>

ClientInit ==
    /\ branch_creator = IdleBranchCreator
    /\ retrier = IdleRetrier
    /\ path_writer = IdlePathWriter

FlowInit ==
    /\ detector = IdleDetector
    /\ comparer = IdleComparer
    /\ url_parser = IdleUrlParser
    /\ branch_namer = IdleBranchNamer
    /\ ClientInit
    /\ planner = IdlePlanner
    /\ request = NoRequest
    /\ config = [safety_create_branch |-> TRUE]
    /\ handler = IdleHandler
    /\ response = NoResponseYet
    /\ call_log = <<>>

Init ==
    /\ ExecutorInit
    /\ plan \in Plans
    /\ FlowInit
    /\ CacheInit
    /\ ThreadsInit

Next ==
    \/ Begin
    \/ Modify
    \/ Create
    \/ Delete
    \/ Rename
    \/ OtherChangeType
    \/ Return

Spec == Init /\ [][Next]_vars

InitCache ==
    /\ ExecutorInit
    /\ plan = <<>>
    /\ FlowInit
    /\ CacheInit
    /\ ThreadsInit

NextCache ==
    \/ AnalyzeRepository
    \/ Cleanup

SpecCache == InitCache /\ [][NextCache]_vars

\* One call of plan_edits(context, user_request).
InitPlan ==
    /\ ExecutorInit
    /\ plan = <<>>
    /\ CacheInit
    /\ ThreadsInit
    /\ planner \in {[IdlePlanner EXCEPT !.pc = "called", !.context = c] :
                       c \in PlannedContexts}
    /\ request = NoRequest
    /\ config = [safety_create_branch |-> TRUE]
    /\ handler = IdleHandler
    /\ response = NoResponseYet
    /\ call_log = <<>>
    /\ detector = IdleDetector
    /\ comparer = IdleComparer
    /\ url_parser = IdleUrlParser
    /\ branch_namer = IdleBranchNamer
    /\ ClientInit

NextPlan ==
    \/ CallPlanningService
    \/ GenerateEditPlan
    \/ ValidateEditPlan

SpecPlan == InitPlan /\ [][NextPlan]_vars

\* One request to the application.
InitRequest ==
    /\ ExecutorInit
    /\ plan = <<>>
    /\ CacheInit
    /\ ThreadsInit
    /\ planner = IdlePlanner
    /\ request \in Requests
    /\ config \in Configs
    /\ handler = IdleHandler
    /\ response = NoResponseYet
    /\ call_log = <<>>
    /\ detector = IdleDetector
    /\ comparer = IdleComparer
    /\ url_parser = IdleUrlParser
    /\ branch_namer = IdleBranchNamer
    /\ ClientInit

NextRequest ==
    \/ BeforeRequest
    \/ NotFound
    \/ RejectRequest
    \/ HandleException
    \/ HandlerAnalyze
    \/ RespondAnalysis
    \/ HandlerPlan
    \/ RespondPlan
    \/ HandlerExecuteEdits
    \/ HandlerPublish
    \/ HandlerFinish
    \/ HandlerPreview
    \/ TestAi

SpecRequest == InitRequest /\ [][NextRequest]_vars

\* One call of detect_language.
InitDetect ==
    /\ ExecutorInit
    /\ plan = <<>>
    /\ CacheInit
    /\ ThreadsInit
    /\ planner = IdlePlanner
    /\ request = NoRequest
    /\ config = [safety_create_branch |-> TRUE]
    /\ handler = IdleHandler
    /\ response = NoResponseYet
    /\ call_log = <<>>
    /\ detector \in {[IdleDetector EXCEPT !.pc = "called", !.filename = f, !.content = c] :
                        f \in Filenames, c \in Contents}
    /\ comparer = IdleComparer
    /\ url_parser = IdleUrlParser
    /\ branch_namer = IdleBranchNamer
    /\ ClientInit

NextDetect == DetectLanguageCall

SpecDetect == InitDetect /\ [][NextDetect]_vars

\* compare_files on two contents, then on the same two swapped.
InitCompare ==
    /\ ExecutorInit
    /\ plan = <<>>
    /\ CacheInit
    /\ ThreadsInit
    /\ planner = IdlePlanner
    /\ request = NoRequest
    /\ config = [safety_create_branch |-> TRUE]
    /\ handler = IdleHandler
    /\ response = NoResponseYet
    /\ call_log = <<>>
    /\ detector = IdleDetector
    /\ comparer \in {[IdleComparer EXCEPT !.pc = "called", !.old_content = x, !.new_content = y] :
                        x \in ComparedContents, y \in ComparedContents}
    /\ url_parser = IdleUrlParser
    /\ branch_namer = IdleBranchNamer
    /\ ClientInit

NextCompare ==
    \/ CompareFilesCall
    \/ CompareFilesSwappedCall

SpecCompare == InitCompare /\ [][NextCompare]_vars

\* One call of parse_repo_url.
InitParse ==
    /\ ExecutorInit
    /\ plan = <<>>
    /\ CacheInit
    /\ ThreadsInit
    /\ planner = IdlePlanner
    /\ request = NoRequest
    /\ config = [safety_create_branch |-> TRUE]
    /\ handler = IdleHandler
    /\ response = NoResponseYet
    /\ call_log = <<>>
    /\ detector = IdleDetector
    /\ comparer = IdleComparer
    /\ url_parser \in {[IdleUrlParser EXCEPT !.pc = "called", !.form = f, !.owner = o,
                                              !.repo_name = r, !.url = RepoUrl(f, o, r)] :
                          f \in UrlForms, o \in Owners, r \in RepositoryNames}
    /\ branch_namer = IdleBranchNamer
    /\ ClientInit

NextParse == ParseRepoUrlCall

SpecParse == InitParse /\ [][NextParse]_vars

\* Calls of generate_branch_name as the clock advances.
InitBranch ==
    /\ ExecutorInit
    /\ plan = <<>>
    /\ CacheInit
    /\ ThreadsInit
    /\ planner = IdlePlanner
    /\ request = NoRequest
    /\ config = [safety_create_branch |-> TRUE]
    /\ handler = IdleHandler
    /\ response = NoResponseYet
    /\ call_log = <<>>
    /\ detector = IdleDetector
    /\ comparer = IdleComparer
    /\ url_parser = IdleUrlParser
    /\ branch_namer \in {[IdleBranchNamer EXCEPT !.now = t] : t \in StartTimes}
    /\ ClientInit

NextBranch ==
    \/ GenerateBranchNameCall
    \/ Tick

SpecBranch == InitBranch /\ [][NextBranch]_vars

\* One call of create_branch, on every remote repository.
InitCreateBranch ==
    /\ ExecutorInit
    /\ plan = <<>>
    /\ CacheInit
    /\ ThreadsInit
    /\ detector = IdleDetector
    /\ comparer = IdleComparer
    /\ url_parser = IdleUrlParser
    /\ branch_namer = IdleBranchNamer
    /\ planner = IdlePlanner
    /\ request = NoRequest
    /\ config = [safety_create_branch |-> TRUE]
    /\ handler = IdleHandler
    /\ response = NoResponseYet
    /\ call_log = <<>>
    /\ retrier = IdleRetrier
    /\ path_writer = IdlePathWriter
    /\ branch_creator \in {[IdleBranchCreator EXCEPT !.initial_refs = refs, !.refs = refs] :
                              refs \in RemoteRefs}

NextCreateBranch ==
    \/ CreateBranchEnter
    \/ LookupHead
    \/ RetryLookup
    \/ CreateRef

SpecCreateBranch == InitCreateBranch /\ [][NextCreateBranch]_vars

\* One call of retry_operation.
InitRetry ==
    /\ ExecutorInit
    /\ plan = <<>>
    /\ FlowInit
    /\ CacheInit
    /\ ThreadsInit

NextRetry ==
    \/ RetryOperationEnter
    \/ RetryAttempt
    \/ RaiseLastException

SpecRetry == InitRetry /\ [][NextRetry]_vars

\* The file operations of execute_edits, for every instruction path.
InitPaths ==
    /\ ExecutorInit
    /\ plan = <<>>
    /\ FlowInit
    /\ CacheInit
    /\ ThreadsInit

NextPaths == ExecuteOnPath

SpecPaths == InitPaths /\ [][NextPaths]_vars

(***************************************************************************)
(* Request threads.  app.py holds one RepositoryManager for all requests   *)
(* and the server runs each request in its own thread; analyze_repository  *)
(* takes no lock, so a thread can be preempted between the cache test, the *)
(* build and the store.                                                    *)
(***************************************************************************)
At(t, at) == threads[t].pc = at
Goto(t, at, url, context) == threads' = [threads EXCEPT ![t] = Thread(at, url, context)]

\* analyze_repository up to the cache test: a hit returns the cached context.
T_Analyze(t) ==
    /\ At(t, "idle")
    /\ ncalls < MaxCalls
    /\ ncalls' = ncalls + 1
    /\ \E url \in Urls :
          IF CacheHit(url)
          THEN /\ Goto(t, "holding", url, context_cache[CacheKey(url)])
               /\ returned_for' =
                     [returned_for EXCEPT ![url] = @ \cup {context_cache[CacheKey(url)]}]
          ELSE /\ Goto(t, "building", url, NoContext)
               /\ UNCHANGED returned_for
    /\ UNCHANGED <<context_cache, temp_dirs, mkdtemp_count, service_calls, builds,
                   last_call, executor_vars, flow_vars>>

\* The build of the miss path: parse, metadata, mkdtemp, clone, scans, and the
\* RepositoryContext; or an exception, which ends the request.
T_Build(t) ==
    /\ At(t, "building")
    /\ LET url == threads[t].url
       IN  \/ /\ \E stage \in FailureStages(url) :
                    /\ service_calls' = CalledUpTo(service_calls, stage)
                    /\ IF DirMadeAt(stage)
                       THEN /\ mkdtemp_count' = mkdtemp_count + 1
                            /\ temp_dirs' = temp_dirs \cup {mkdtemp_count + 1}
                       ELSE UNCHANGED <<mkdtemp_count, temp_dirs>>
              /\ Goto(t, "idle", "", NoContext)
              /\ UNCHANGED builds
           \/ /\ UrlParses(url)
              /\ service_calls' = CalledUpTo(service_calls, "scan")
              /\ mkdtemp_count' = mkdtemp_count + 1
              /\ temp_dirs' = temp_dirs \cup {mkdtemp_count + 1}
              /\ builds' = [builds EXCEPT ![url] = @ + 1]
              /\ Goto(t, "storing", url, RepositoryContext(url, mkdtemp_count + 1))
    /\ UNCHANGED <<context_cache, returned_for, last_call, ncalls, executor_vars, flow_vars>>

\* self.context_cache[cache_key] = context; return context
T_Store(t) ==
    /\ At(t, "storing")
    /\ context_cache' = CachePut(context_cache, threads[t].url, threads[t].context)
    /\ returned_for' = [returned_for EXCEPT ![threads[t].url] = @ \cup {threads[t].context}]
    /\ Goto(t, "holding", threads[t].url, threads[t].context)
    /\ UNCHANGED <<temp_dirs, mkdtemp_count, service_calls, builds, last_call, ncalls,
                   executor_vars, flow_vars>>

\* An execute request goes on from the context it obtained: plan_edits,
\* execute_edits and the publication, all on context.local_path.
T_Execute(t) ==
    /\ At(t, "holding")
    /\ Goto(t, "executing", threads[t].url, threads[t].context)
    /\ UNCHANGED <<cache_vars, executor_vars, flow_vars>>

\* The end of an execute or preview request: repo_manager.cleanup(context).
T_Cleanup(t) ==
    /\ At(t, "holding") \/ At(t, "executing")
    /\ CleanupContext(threads[t].context)
    /\ Goto(t, "idle", "", NoContext)
    /\ UNCHANGED <<last_call, ncalls, executor_vars, flow_vars>>

\* The end of an analyze or plan request, which call no cleanup.
T_Respond(t) ==
    /\ At(t, "holding")
    /\ Goto(t, "idle", "", NoContext)
    /\ UNCHANGED <<cache_vars, executor_vars, flow_vars>>

NextConcurrent ==
    \E t \in Threads :
        \/ T_Analyze(t)
        \/ T_Build(t)
        \/ T_Store(t)
        \/ T_Execute(t)
        \/ T_Cleanup(t)
        \/ T_Respond(t)

SpecConcurrent == InitCache /\ [][NextConcurrent]_vars

(***************************************************************************)
(* Properties of execute_edits, checked under Spec.                        *)
(***************************************************************************)
Done == pc = "done"
AttemptedInstructions == [k \in 1..Len(attempted) |-> attempted[k].instr]
AttemptedPriorities == [k \in 1..Len(attempted) |-> plan[attempted[k].instr].priority]
PlanPriorities == [k \in 1..Len(plan) |-> plan[k].priority]
Last(seq) == seq[Len(seq)]

\* The loop consumes one instruction in this step.
LoopStep == InLoop /\ pos' # pos

FailedAttempts == SelectSeq(attempted, LAMBDA a : a.outcome = "error")
C2_ErrorRecordedAndLoopContinues ==
    /\ Len(errors) = Len(FailedAttempts)
    /\ \A j \in 1..Len(errors) :
          errors[j].file_path = plan[FailedAttempts[j].instr].file_path
    /\ pc = "loop" => AttemptedInstructions = SubSeq(sorted_instructions, 1, pos)
    /\ Done => /\ AttemptedInstructions = sorted_instructions
               /\ result # NoResult
               /\ result.errors = errors

\* The first instruction raised and the second one was still applied.
C2_Witness ==
    /\ Done
    /\ Len(attempted) >= 2
    /\ attempted[1].outcome = "error"
    /\ errors[1].kind = "failed_to_process"
    /\ attempted[2].outcome = "change"

\* C3: when validate_edit reports the generated content of a modify
\* instruction invalid, the file on disk keeps its content, no FileChange is
\* appended, and one error string naming the file is recorded.
ValidationFailedStep ==
    /\ LoopStep
    /\ Instruction.change_type = "modify"
    /\ validations' = Append(validations, [instr |-> Current, is_valid |-> FALSE])
C3_InvalidContentNotWritten ==
    [][ValidationFailedStep =>
          /\ fs' = fs
          /\ changes' = changes
          /\ errors' = Append(errors, ValidationError(Instruction.file_path))]_vars

\* A validation failure has just been recorded for a file that still holds
\* its original content, which differs from every generated content.
C3_Witness ==
    /\ Len(validations) > 0 /\ ~Last(validations).is_valid
    /\ Len(errors) > 0 /\ Last(errors).kind = "validation_failed"
    /\ fs[Last(errors).file_path] = OriginalContent
    /\ OriginalContent \notin GeneratedContents

\* C4: the EditResult has success = true exactly when its changes list is
\* non-empty and its errors list is empty, whatever its warnings.
C4_SuccessIffChangesAndNoErrors ==
    result # NoResult =>
        /\ result.success <=> (Len(result.changes) > 0 /\ Len(result.errors) = 0)
        /\ result.success <=> (/\ \E k \in 1..Len(attempted) : attempted[k].outcome = "change"
                               /\ \A k \in 1..Len(attempted) : attempted[k].outcome # "error")

\* A successful result that carries a warning.
C4_Witness ==
    /\ result # NoResult
    /\ result.success
    /\ Len(result.warnings) > 0

\* The change kind a FileChange records for an instruction's change_type.
AppliedKind(change_type) ==
    CASE change_type = "modify" -> "modified"
      [] change_type = "create" -> "created"
      [] change_type = "delete" -> "deleted"
      [] OTHER -> "none"
AppliedAttempts == SelectSeq(attempted, LAMBDA a : a.outcome = "change")

\* The FileChanges are, in order, those of the iterations that applied a
\* change, each with the file path and the kind of its instruction; an
\* instruction has at most one.
FileChangesMatchInstructions ==
    /\ Len(changes) = Len(AppliedAttempts)
    /\ \A j \in 1..Len(changes) :
          /\ changes[j].file_path = plan[AppliedAttempts[j].instr].file_path
          /\ changes[j].change_type = AppliedKind(plan[AppliedAttempts[j].instr].change_type)
    /\ \A j, k \in 1..Len(attempted) : attempted[j].instr = attempted[k].instr => j = k

\* C5: every FileChange of an EditResult belongs to exactly one instruction of
\* the plan, whose change was applied, with its file path and kind, and every
\* instruction of the plan without a FileChange has an entry in errors or in
\* warnings.
C5_EveryInstructionAccountedFor ==
    /\ FileChangesMatchInstructions
    /\ Done => \A k \in 1..Len(attempted) :
                  attempted[k].outcome \in {"change", "error", "warning"}

\* C6: a modify instruction on a file that does not exist records exactly one
\* warning, no FileChange and no error, calls edit_file not at all and leaves
\* every file alone; and when every other instruction of the plan applied its
\* change, the result's success flag is true.
MissingModifyStep ==
    /\ LoopStep
    /\ Instruction.change_type = "modify"
    /\ ~Exists(Instruction.file_path)
MissingModifyAttempt(a) ==
    a.outcome = "warning" /\ plan[a.instr].change_type = "modify"
C6_MissingModifyOnlyWarns ==
    /\ [][MissingModifyStep =>
            /\ warnings' = Append(warnings,
                                  Warning("modify_not_found", Instruction.file_path))
            /\ UNCHANGED <<changes, errors, edit_calls, fs>>]_vars
    /\ [](( /\ result # NoResult
            /\ \E k \in 1..Len(attempted) : ~MissingModifyAttempt(attempted[k])
            /\ \A k \in 1..Len(attempted) :
                  \/ MissingModifyAttempt(attempted[k])
                  \/ attempted[k].outcome = "change")
          => result.success)

\* A plan with a modify of a missing file and an applied change has returned.
C6_Witness ==
    /\ result # NoResult
    /\ \E k \in 1..Len(attempted) :
          /\ MissingModifyAttempt(attempted[k])
          /\ fs[plan[attempted[k].instr].file_path] = Absent
    /\ \E k \in 1..Len(attempted) : attempted[k].outcome = "change"
    /\ result.success
    /\ Len(result.warnings) = 1

\* C10: a delete instruction on an existing file removes the file and appends
\* one 'deleted' FileChange holding the file's prior content and an empty new
\* content (unless the read or the unlink raises, which leaves the file and
\* records the one error of C2); on an absent file it records one warning, no
\* FileChange, and changes nothing.
DeleteStep == LoopStep /\ Instruction.change_type = "delete"
C10_DeleteRemovesAndRecords ==
    [][DeleteStep =>
          LET path == Instruction.file_path
          IN  IF fs[path] # Absent
              THEN \/ /\ fs' = [fs EXCEPT ![path] = Absent]
                      /\ changes' = Append(changes,
                             [file_path |-> path, original_content |-> fs[path],
                              new_content |-> "", change_type |-> "deleted",
                              valid |-> TRUE,
                              review_result |-> [status |-> "<None>", issues |-> <<>>],
                              explanation |-> "<None>"])
                      /\ UNCHANGED <<errors, warnings>>
                   \/ /\ errors' = Append(errors, ExceptionError(path))
                      /\ UNCHANGED <<fs, changes, warnings>>
              ELSE /\ warnings' = Append(warnings, Warning("delete_not_found", path))
                   /\ UNCHANGED <<fs, changes, errors>>]_vars

\* A generated content has been deleted and recorded as the prior content.
C10_Witness ==
    /\ Len(changes) > 0
    /\ Last(changes).change_type = "deleted"
    /\ Last(changes).original_content \in GeneratedContents
    /\ Last(changes).new_content = ""
    /\ fs[Last(changes).file_path] = Absent

\* C11: a rename instruction records exactly one warning (rename is not
\* implemented) and leaves every file, the changes list and the errors list
\* as they are; AIEditor.edit_file is not called.
RenameStep == LoopStep /\ Instruction.change_type = "rename"
C11_RenameOnlyWarns ==
    [][RenameStep =>
          /\ warnings' = Append(warnings,
                                Warning("rename_not_implemented", Instruction.file_path))
          /\ UNCHANGED <<fs, changes, errors, edit_calls>>]_vars

\* A plan of one rename of an existing file has returned: one warning, the
\* file in place, no change, no error, no success.
C11_Witness ==
    /\ Done
    /\ Len(plan) = 1 /\ plan[1].change_type = "rename" /\ plan[1].file_path = "a.py"
    /\ Len(result.warnings) = 1
    /\ result.warnings[1].kind = "rename_not_implemented"
    /\ fs["a.py"] = OriginalContent
    /\ result.changes = <<>> /\ result.errors = <<>> /\ ~result.success

\* C12: a create instruction whose content generation and file write succeed
\* writes the generated content to the target path, whatever the content and
\* whether or not the path exists already, with no call of validate_edit, and
\* appends one 'created' FileChange with empty original content; when mkdir,
\* edit_file or the write raises, the file is left alone and the one error of
\* C2 is recorded.
CreateStep == LoopStep /\ Instruction.change_type = "create"
C12_CreateWritesUnvalidated ==
    [][CreateStep =>
          LET path == Instruction.file_path
          IN  /\ validations' = validations
              /\ UNCHANGED warnings
              /\ \/ /\ fs'[path] \in GeneratedContents
                    /\ fs' = [fs EXCEPT ![path] = fs'[path]]
                    /\ changes' = Append(changes,
                           [file_path |-> path, original_content |-> "",
                            new_content |-> fs'[path], change_type |-> "created",
                            valid |-> TRUE,
                            review_result |-> [status |-> "<None>", issues |-> <<>>],
                            explanation |-> "<None>"])
                    /\ edit_calls' = Append(edit_calls, Current)
                    /\ UNCHANGED errors
                 \/ /\ errors' = Append(errors, ExceptionError(path))
                    /\ UNCHANGED <<fs, changes>>]_vars

\* A create on the file that was there: overwritten with generated content,
\* recorded as created from empty content, nothing validated.
C12_Witness ==
    /\ Len(changes) > 0
    /\ Last(changes).change_type = "created"
    /\ Last(changes).file_path = "a.py"
    /\ Last(changes).original_content = ""
    /\ fs["a.py"] = Last(changes).new_content
    /\ fs["a.py"] \in GeneratedContents
    /\ validations = <<>>

\* C26: execute_edits never mutates the plan it is given: no step of the
\* call changes the plan's instruction list (the same instructions, in the
\* same order, with the same fields), and the EditResult returned holds that
\* plan.
C26_PlanNeverMutated ==
    [][/\ plan' = plan
       /\ result' # NoResult => result'.plan = plan]_vars

\* A call has returned for a plan whose order the priority sort changes.
C26_Witness ==
    /\ pc = "done"
    /\ Len(plan) = MaxPlan
    /\ sorted_instructions # [k \in 1..Len(plan) |-> k]
    /\ result.plan = plan

IsPrefix(s, t) == Len(s) <= Len(t) /\ SubSeq(t, 1, Len(s)) = s

\* C28: there is no rollback within a batch.  The changes list only grows;
\* a step that records an error (an exception or a validation failure)
\* leaves every file on disk and every FileChange recorded so far as it
\* was; and the EditResult holds every FileChange recorded.
C28_NoRollbackWithinBatch ==
    [][/\ IsPrefix(changes, changes')
       /\ Len(errors') > Len(errors) => (fs' = fs /\ changes' = changes)
       /\ result' # NoResult => result'.changes = changes]_vars

\* b.md was created, then the modification of a.py failed validation: b.md
\* is still on disk with the generated content and its FileChange is in the
\* result.
C28_Witness ==
    /\ pc = "done"
    /\ Len(attempted) = 2
    /\ attempted[1].outcome = "change"
    /\ attempted[2].outcome = "error"
    /\ errors = <<ValidationError("a.py")>>
    /\ Len(result.changes) = 1
    /\ result.changes[1].change_type = "created"
    /\ result.changes[1].file_path = "b.md"
    /\ fs["b.md"] = result.changes[1].new_content
    /\ ~result.success

\* C29: in every EditResult summary, total_instructions is the number of
\* instructions of the plan, successful_changes the number of FileChanges
\* and the sum of files_modified, files_created and files_deleted,
\* failed_changes the number of error strings and warnings_count the number
\* of warning strings.
C29_SummaryCountsTheResult ==
    result # NoResult =>
        /\ result.summary.total_instructions = Len(result.plan)
        /\ result.summary.total_instructions = Len(plan)
        /\ result.summary.successful_changes = Len(result.changes)
        /\ result.summary.successful_changes =
              result.summary.files_modified + result.summary.files_created
                  + result.summary.files_deleted
        /\ result.summary.failed_changes = Len(result.errors)
        /\ result.summary.warnings_count = Len(result.warnings)

\* A result with a change, an error and an instruction that left neither a
\* change nor an error nor a warning.
C29_Witness ==
    /\ result # NoResult
    /\ result.summary.total_instructions = MaxPlan
    /\ result.summary.successful_changes = 1
    /\ result.summary.files_deleted = 1
    /\ result.summary.failed_changes = 1
    /\ result.summary.warnings_count = 0

\* C30: every instruction of a plan yields exactly one outcome (a
\* FileChange, an error or a warning), so in the summary of every
\* EditResult successful_changes + failed_changes + warnings_count =
\* total_instructions, whatever the change_type of the instructions.
C30_OneOutcomePerInstruction ==
    result # NoResult =>
        result.summary.successful_changes + result.summary.failed_changes
            + result.summary.warnings_count = result.summary.total_instructions

\* C31: every FileChange of the changes list, and so of every EditResult,
\* has validation_result.valid = true; a step whose validation reported
\* invalid adds nothing to the changes list and writes nothing to disk.
C31_OnlyValidChangesRecorded ==
    [][/\ \A k \in 1..Len(changes') : changes'[k].valid
       /\ result' # NoResult => \A k \in 1..Len(result'.changes) : result'.changes[k].valid
       /\ (Len(validations') > Len(validations) /\ ~Last(validations').is_valid) =>
             (changes' = changes /\ fs' = fs)]_vars

\* A result with a valid modification, after another modification failed
\* its validation.
C31_Witness ==
    /\ pc = "done"
    /\ \E k \in 1..Len(validations) : ~validations[k].is_valid
    /\ \E k \in 1..Len(validations) : validations[k].is_valid
    /\ \E k \in 1..Len(result.changes) :
          result.changes[k].change_type = "modified" /\ result.changes[k].valid
    /\ Len(result.errors) > 0

\* C32: instructions of equal priority are attempted in the order in which
\* they appear in the plan, so a plan whose instructions all carry the
\* default priority is executed in plan order.
C32_EqualPrioritiesInPlanOrder ==
    /\ \A j, k \in 1..Len(attempted) :
          (j < k /\ AttemptedPriorities[j] = AttemptedPriorities[k])
              => attempted[j].instr < attempted[k].instr
    /\ (Done /\ \A k \in 1..Len(plan) : plan[k].priority = DefaultPriority)
          => AttemptedInstructions = [k \in 1..Len(plan) |-> k]

\* A plan of priorities [2, 1, 2] has been executed as its second, first
\* and third instruction.
C32_Witness ==
    /\ Done
    /\ PlanPriorities = <<2, 1, 2>>
    /\ AttemptedInstructions = <<2, 1, 3>>

\* C33: a failure of the review service or of the explanation service does
\* not fail a modify instruction.  Once validate_edit has returned, the only
\* error a modify step records is the validation failure: when validation
\* passed no error is recorded, the new content is written and a 'modified'
\* FileChange is recorded, with review status 'error' and no issues when
\* the review service failed and the fallback text when the explanation
\* service failed.
C33_ServiceFailureDoesNotFailModify ==
    [][(/\ LoopStep
        /\ Instruction.change_type = "modify"
        /\ Len(validations') > Len(validations)) =>
          IF Last(validations').is_valid
          THEN /\ errors' = errors
               /\ Len(changes') = Len(changes) + 1
               /\ Last(changes').change_type = "modified"
               /\ Last(changes').file_path = Instruction.file_path
               /\ fs'[Instruction.file_path] = Last(changes').new_content
               /\ Last(changes').review_result.status \in {"reviewed", "unchanged", "error"}
               /\ Last(changes').review_result.status = "error" =>
                     Last(changes').review_result.issues = <<>>
               /\ Last(changes').explanation \in {"explanation", "no_changes", "fallback"}
          ELSE errors' = Append(errors, ValidationError(Instruction.file_path))]_vars

\* Both services failed on a modification that was written and recorded,
\* and no error was recorded.
C33_Witness ==
    /\ Len(changes) > 0
    /\ Last(changes).change_type = "modified"
    /\ Last(changes).review_result.status = "error"
    /\ Last(changes).explanation = "fallback"
    /\ fs[Last(changes).file_path] = Last(changes).new_content
    /\ errors = <<>>

(***************************************************************************)
(* Properties of plan_edits, checked under SpecPlan.                       *)
(***************************************************************************)
\* generate_edit_plan has returned an EditPlan for the answer.
PlanGenerated == planner.pc \in {"planned", "returned"} \/
                 (planner.pc = "raised" /\ planner.plan # NoPlan)

\* The answer has the shape of an EditPlan: an object with instructions and
\* a confidence, every instruction an object with a file_path.
WellFormedResponse(answer) ==
    /\ answer.json = "object"
    /\ {"instructions", "confidence"} \subseteq DOMAIN answer.data
    /\ \A k \in 1..Len(answer.data["instructions"]) :
          /\ answer.data["instructions"][k] # NotAnObject
          /\ "file_path" \in DOMAIN answer.data["instructions"][k]

\* C13: generate_edit_plan raises for every answer of the planning service
\* that is malformed or incomplete (no instructions, an instruction without
\* file_path, no confidence): it returns a plan only for a well-formed
\* answer, and never one filled with defaults.
C13_IncompleteResponseRaises ==
    PlanGenerated => WellFormedResponse(planner.response)

\* The path has a segment .git followed by a slash.
VcsMetadataPath(path) ==
    \/ Len(path) >= 5 /\ SubSeq(path, 1, 5) = <<".", "g", "i", "t", "/">>
    \/ \E i \in 1..Len(path) :
          /\ i + 5 <= Len(path)
          /\ SubSeq(path, i, i + 5) = <<"/", ".", "g", "i", "t", "/">>

\* C18: for every plan generate_edit_plan produced that has an instruction on
\* a path with a .git/ segment, the validator does not raise, its warnings
\* hold a risky-path warning for that path, and plan_edits returns the plan as
\* generated.
C18_RiskyPathWarnedNeverBlocked ==
    \A k \in 1..Len(planner.plan.instructions) :
        VcsMetadataPath(planner.plan.instructions[k].file_path) =>
            /\ planner.pc \in {"planned", "returned"}
            /\ planner.pc = "returned" =>
                  /\ \E w \in 1..Len(planner.warnings) :
                        planner.warnings[w] =
                            [kind |-> "risky_path",
                             file_path |-> planner.plan.instructions[k].file_path]
                  /\ planner.plan = ParsedPlan(planner.response)

\* C19: the context handed to the planning service carries the owner, the
\* repository name, the structure, the important files, the languages and
\* the file count of the RepositoryContext plan_edits was called with.
C19_HandedContextCarriesIdentity ==
    planner.pc \in {"answered", "planned", "returned", "raised"} =>
        /\ planner.handed.repository.owner = planner.context.owner
        /\ planner.handed.repository.name = planner.context.repo_name
        /\ planner.handed.structure = planner.context.structure
        /\ planner.handed.important_files = planner.context.important_files
        /\ planner.handed.languages = planner.context.languages
        /\ planner.handed.file_count = planner.context.file_count

(***************************************************************************)
(* Properties of the request handlers, checked under SpecRequest.          *)
(***************************************************************************)
Responded == handler.pc = "responded"
PublicationCalls ==
    SelectSeq(call_log, LAMBDA c : c \in {"create_branch", "commit_and_push",
                                          "create_pull_request"})

\* C14: in the execute request flow, once plan_edits has raised, no
\* instruction is executed (execute_edits is not entered, edit_file is not
\* called), the working copy is as cloned, no publication step is attempted,
\* and the request is answered with the failure.
C14_PlanFailureAbortsBeforeExecution ==
    (request.endpoint = "execute" /\ handler.plan_failed) =>
        /\ pc = "idle"
        /\ attempted = <<>>
        /\ edit_calls = <<>>
        /\ fs \in InitialFileSystems
        /\ PublicationCalls = <<>>
        /\ Responded
        /\ response.status = 500

\* An execute request whose planning failed has been answered.
C14_Witness ==
    /\ request.endpoint = "execute"
    /\ handler.plan_failed
    /\ Responded
    /\ response.error = "Execution failed"
    /\ call_log = <<"cache_lookup", "plan_edits">>

\* The request has a malformed URL or lacks a required field.
InvalidRequest ==
    /\ request.endpoint \in UrlEndpoints
    /\ \/ request.body # "object"
       \/ request.repo_url = Missing
       \/ request.endpoint # "analyze" /\ ~request.user_request
       \/ request.repo_url \notin {"https://github.com/o/r", "https://github.com/o/q"}

\* C15: on the analyze, plan, execute and preview endpoints a request with a
\* malformed URL or without a required field is answered without any call to
\* the hosting service, the AI service, git clone or the context cache.
C15_InvalidRequestMakesNoCall ==
    InvalidRequest =>
        /\ call_log = <<>>
        /\ service_calls = [parse |-> 0, info |-> 0, clone |-> 0, scan |-> 0]
        /\ context_cache = <<>>

\* C16: when the edits succeeded and a publication step (branch creation,
\* commit and push, pull-request creation) failed, the execute response has
\* success true, a pull_request_error field and no pull_request field.
C16_PublicationFailureKeptApart ==
    (Responded /\ handler.pr_result = "failed") =>
        /\ result.success
        /\ response.status = 200
        /\ response.success = "true"
        /\ response.pull_request_error = "present"
        /\ response.pull_request = Missing

\* The push failed after the branch was created, and the response is out.
C16_Witness ==
    /\ Responded
    /\ handler.pr_result = "failed"
    /\ PublicationCalls = <<"create_branch", "commit_and_push">>
    /\ response.success = "true"
    /\ response.pull_request_error = "present"

\* C17: every failure response (an error status, or success false) carries
\* the request id generated for the request.
C17_FailureCarriesRequestId ==
    (Responded /\ (response.status >= 400 \/ response.success = "false")) =>
        /\ handler.request_id # Missing
        /\ response.request_id = handler.request_id

\* The calls the step about to be taken adds to the call log.
NewCalls == SubSeq(call_log', Len(call_log) + 1, Len(call_log'))
PublishStep == handler.pc = "planned" /\ handler'.pc = "published"

\* C35: create_pull_request runs branch creation, commit and push, and
\* pull-request creation in that order; when one of them fails the later
\* ones are not run, the call returns a failure (it does not raise: the
\* handler goes on to its cleanup) and the branch_name and pr_url of the
\* EditResult stay unset; they are set exactly when the three steps succeeded.
C35_PublicationInOrderFieldsSetOnSuccess ==
    [][PublishStep =>
          /\ \E k \in 0..Len(PublicationSteps) : NewCalls = SubSeq(PublicationSteps, 1, k)
          /\ handler'.pr_result = "success"
                => /\ NewCalls = PublicationSteps
                   /\ result'.branch_name # "<None>" /\ result'.pr_url # "<None>"
          /\ handler'.pr_result = "failed"
                => /\ NewCalls # <<>>
                   /\ result' = result
                   /\ result'.branch_name = "<None>" /\ result'.pr_url = "<None>"
          /\ handler'.pr_result = "none"
                => NewCalls = <<>> /\ result' = result
          /\ (result'.branch_name # "<None>" \/ result'.pr_url # "<None>")
                => handler'.pr_result = "success"]_vars

\* The push failed after the branch was created: the pull request was not
\* asked for, the failure was returned and the result's fields are unset.
C35_Witness ==
    /\ handler.pc = "published"
    /\ handler.pr_result = "failed"
    /\ PublicationCalls = <<"create_branch", "commit_and_push">>
    /\ result.success
    /\ result.branch_name = "<None>" /\ result.pr_url = "<None>"

C27_ObtainedContextReleased ==
    (/\ Responded
     /\ request.endpoint \in {"execute", "preview"}
     /\ handler.context # NoContext)
        => \E k \in 1..Len(call_log) : call_log[k] = "cleanup"

(***************************************************************************)
(* Properties of detect_language, checked under SpecDetect.                *)
(***************************************************************************)
\* The file name ends, case aside, with an extension of the table that
\* follows a non-empty stem of its last component.
TableExtensions(filename) ==
    {e \in DOMAIN LanguageExtensions :
        /\ EndsWith(Lower(filename), e)
        /\ Len(filename) > Len(e)
        /\ filename[Len(filename) - Len(e)] # "/"}
HasContent == detector.content # NoContent /\ detector.content # <<>>

\* C20: detect_language resolves in a fixed order.  A file name with an
\* extension of the table yields the table's language, whatever the content
\* and whatever pattern the name holds; otherwise a shebang in the content
\* decides; otherwise the filename patterns; otherwise 'unknown'.
C20_ExtensionThenShebangThenPattern ==
    detector.pc = "returned" =>
        IF TableExtensions(detector.filename) # {}
        THEN \A e \in TableExtensions(detector.filename) :
                detector.language = LanguageExtensions[e]
        ELSE IF HasContent /\ ShebangLanguage(detector.content) # NoLanguage
        THEN detector.language = ShebangLanguage(detector.content)
        ELSE IF PatternLanguage(detector.filename) # NoLanguage
        THEN detector.language = PatternLanguage(detector.filename)
        ELSE detector.language = "unknown"

\* Dockerfile.py with a bash shebang is python: the extension wins over the
\* shebang and over the dockerfile pattern.
C20_Witness ==
    /\ detector.pc = "returned"
    /\ detector.filename = <<"D", "o", "c", "k", "e", "r", "f", "i", "l", "e", ".", "p", "y">>
    /\ detector.content = <<"#", "!", "/", "b", "i", "n", "/", "b", "a", "s", "h", "\n", "e", "c", "h", "o">>
    /\ ShebangLanguage(detector.content) = "bash"
    /\ PatternLanguage(detector.filename) = "dockerfile"
    /\ detector.language = "python"

\* The interpreter names of the shebang table.
Interpreters ==
    UNION {{entry.interpreters[k] : k \in 1..Len(entry.interpreters)} :
              entry \in {ShebangMapping[i] : i \in 1..Len(ShebangMapping)}}
\* The content's first line, blanks stripped, is a #! line that names an
\* interpreter of the table.
RecognizableShebang ==
    /\ HasContent
    /\ StartsWith(FirstLine(detector.content), <<"#", "!">>)
    /\ \E interpreter \in Interpreters : Search(interpreter, FirstLine(detector.content))
\* The file name, case aside, holds dockerfile or makefile or is .gitignore
\* or .env.
MatchesFilenamePattern ==
    \/ Search(<<"d", "o", "c", "k", "e", "r", "f", "i", "l", "e">>, Lower(detector.filename))
    \/ Search(<<"m", "a", "k", "e", "f", "i", "l", "e">>, Lower(detector.filename))
    \/ Lower(detector.filename) \in {<<".", "g", "i", "t", "i", "g", "n", "o", "r", "e">>,
                                     <<".", "e", "n", "v">>}

\* C21 (as amended): a file name whose extension is not in the table and
\* that matches no filename pattern, with a content that has no recognizable
\* shebang (or with no content), yields 'unknown'.
C21_UnknownUnlessPatternMatches ==
    (/\ detector.pc = "returned"
     /\ TableExtensions(detector.filename) = {}
     /\ ~RecognizableShebang
     /\ ~MatchesFilenamePattern)
        => detector.language = "unknown"

\* notes.xyz under an awk shebang, which names no interpreter of the table,
\* is unknown.
C21_Witness ==
    /\ detector.pc = "returned"
    /\ detector.filename = <<"n", "o", "t", "e", "s", ".", "x", "y", "z">>
    /\ StartsWith(FirstLine(detector.content), <<"#", "!">>)
    /\ ~RecognizableShebang
    /\ ~MatchesFilenamePattern
    /\ detector.language = "unknown"

\* C21 (as stated): every file name whose extension is not in the table,
\* with a content that has no recognizable shebang (or with no content),
\* yields 'unknown'.
C21_UnknownExtensionNoShebangIsUnknown ==
    (/\ detector.pc = "returned"
     /\ TableExtensions(detector.filename) = {}
     /\ ~RecognizableShebang)
        => detector.language = "unknown"

(***************************************************************************)
(* Properties of compare_files, checked under SpecCompare.                 *)
(***************************************************************************)
\* C22: comparing a content with itself reports changed = false, no
\* additions, no deletions and similarity 1.0; comparing two different
\* contents reports changed = true in both argument orders.
C22_IdenticalUnchangedDifferentChanged ==
    comparer.pc = "returned" =>
        IF comparer.old_content = comparer.new_content
        THEN /\ ~comparer.comparison.changed
             /\ comparer.comparison.additions = 0
             /\ comparer.comparison.deletions = 0
             /\ comparer.comparison.similarity = One
        ELSE /\ comparer.comparison.changed
             /\ comparer.swapped.changed

\* A content of two lines compared with itself.
C22_Witness ==
    /\ comparer.pc = "returned"
    /\ comparer.old_content = <<"a", "\n", "b">>
    /\ comparer.new_content = comparer.old_content
    /\ ~comparer.comparison.changed
    /\ comparer.comparison.similarity = One

\* The distinct lines of a content: its maximal pieces free of line feeds.
LineSet(content) ==
    {SubSeq(content, p[1] + 1, p[2] - 1) :
        p \in {q \in (0..Len(content)) \X (1..(Len(content) + 1)) :
                  /\ q[1] < q[2]
                  /\ q[1] = 0 \/ content[q[1]] = "\n"
                  /\ q[2] = Len(content) + 1 \/ content[q[2]] = "\n"
                  /\ \A k \in (q[1] + 1)..(q[2] - 1) : content[k] # "\n"}}

\* C23: for different contents, additions is the number of distinct lines
\* of the new content absent from the old one and deletions the number of
\* distinct lines of the old content absent from the new one; so additions
\* one way are deletions the other way, and contents with the same set of
\* lines (reordered or repeated lines) report changed with 0 and 0.
C23_CountsAreLineSetDifferences ==
    (comparer.pc = "returned" /\ comparer.old_content # comparer.new_content) =>
        /\ comparer.comparison.additions =
              Cardinality(LineSet(comparer.new_content) \ LineSet(comparer.old_content))
        /\ comparer.comparison.deletions =
              Cardinality(LineSet(comparer.old_content) \ LineSet(comparer.new_content))
        /\ comparer.comparison.additions = comparer.swapped.deletions
        /\ comparer.comparison.deletions = comparer.swapped.additions
        /\ LineSet(comparer.old_content) = LineSet(comparer.new_content) =>
              /\ comparer.comparison.changed
              /\ comparer.comparison.additions = 0
              /\ comparer.comparison.deletions = 0

\* A repeated line: a, a against a is changed with nothing added or deleted.
C23_Witness ==
    /\ comparer.pc = "returned"
    /\ comparer.old_content = <<"a", "\n", "a">>
    /\ comparer.new_content = <<"a">>
    /\ comparer.comparison.changed
    /\ comparer.comparison.additions = 0
    /\ comparer.comparison.deletions = 0

(***************************************************************************)
(* Properties of parse_repo_url, checked under SpecParse.                  *)
(***************************************************************************)
\* C24: for every owner O and repository name R, parse_repo_url returns
\* exactly (O, R) for https://github.com/O/R, for https://github.com/O/R.git
\* and for git@github.com:O/R.git.
C24_ParsesOwnerAndName ==
    url_parser.pc = "returned" =>
        /\ url_parser.parsed.outcome = "returned"
        /\ url_parser.parsed.owner = url_parser.owner
        /\ url_parser.parsed.repo_name = url_parser.repo_name

(***************************************************************************)
(* Properties of generate_branch_name, checked under SpecBranch.           *)
(***************************************************************************)
\* C25: any two calls of generate_branch_name, for the same or for
\* different request texts, return different names.
C25_BranchNamesUnique ==
    \A i, j \in 1..Len(branch_namer.calls) :
        i # j => branch_namer.calls[i].branch_name # branch_namer.calls[j].branch_name

(***************************************************************************)
(* Properties of create_branch, checked under SpecCreateBranch.            *)
(***************************************************************************)
Lookups == SelectSeq(branch_creator.requests, LAMBDA r : r.method = "GET")
Creations == SelectSeq(branch_creator.requests, LAMBDA r : r.method = "POST")
AnsweredNotFound(answer) == answer.responded /\ answer.status = 404

\* C37: create_branch looks up the head of the source branch and looks up
\* 'master', once, only when the first lookup answered 404; any other
\* failure of the first lookup, and any failure of the second, is raised
\* with no ref creation asked for and the remote refs as they were; and a
\* ref creation answered 422 makes the call return a status 'exists' result.
C37_FallbackOnlyOnNotFound ==
    /\ Len(Lookups) <= 2
    /\ Len(Creations) <= 1
    /\ Len(Lookups) >= 1 =>
          /\ branch_creator.requests[1] = Lookups[1]
          /\ Lookups[1].ref = branch_creator.from_branch
    /\ Len(Lookups) = 2 => AnsweredNotFound(Lookups[1].answer) /\ Lookups[2].ref = "master"
    /\ (CreatorAt("done") /\ ~AnsweredNotFound(Lookups[1].answer) /\ ~LookupSucceeded(Lookups[1].answer))
          => /\ branch_creator.result = "raised"
             /\ Len(Lookups) = 1 /\ Creations = <<>>
             /\ branch_creator.refs = branch_creator.initial_refs
    /\ (CreatorAt("done") /\ AnsweredNotFound(Lookups[1].answer))
          => /\ Len(Lookups) = 2
             /\ ~LookupSucceeded(Lookups[2].answer)
                   => /\ branch_creator.result = "raised" /\ Creations = <<>>
                      /\ branch_creator.refs = branch_creator.initial_refs
    /\ Creations # <<>> =>
          /\ LookupSucceeded(Lookups[Len(Lookups)].answer)
          /\ branch_creator.sha = Lookups[Len(Lookups)].answer.sha
          /\ (Creations[1].answer.responded /\ Creations[1].answer.status = 422)
                => /\ branch_creator.result = "exists"
                   /\ branch_creator.refs = branch_creator.initial_refs
    /\ branch_creator.refs # branch_creator.initial_refs
          => /\ branch_creator.result = "created"
             /\ branch_creator.refs[NewBranch] = branch_creator.sha

\* A repository with 'master' and the new branch, no 'main': the lookup of
\* 'main' answered 404, the lookup of 'master' gave the sha, the creation
\* answered 422 and the call returned 'exists'.
C37_Witness ==
    /\ CreatorAt("done")
    /\ branch_creator.from_branch = "main"
    /\ branch_creator.requests =
          <<HttpRequest("GET", "main", Answer(TRUE, 404, NoSha)),
            HttpRequest("GET", "master", Answer(TRUE, 200, Sha("master"))),
            HttpRequest("POST", NewBranch, Answer(TRUE, 422, NoSha))>>
    /\ branch_creator.result = "exists"

(***************************************************************************)
(* Properties of retry_operation, checked under SpecRetry.                 *)
(***************************************************************************)
Listed(invocation) == invocation.exception.type \in ListedExceptions
Failed(invocation) == invocation.outcome = "raised" /\ Listed(invocation)
LastInvocation == retrier.invocations[Len(retrier.invocations)]

\* C38: retry_operation invokes the operation at most max_retries + 1
\* times; every invocation but the last one made has raised a listed
\* exception; an invocation that returns ends the call with its value; an
\* invocation that raises an unlisted exception ends the call with that
\* exception; and when max_retries + 1 invocations have raised listed
\* exceptions the call raises the exception of the last of them.
C38_RetriesUntilSuccessOrExhausted ==
    /\ Len(retrier.invocations) <= IF retrier.max_retries + 1 > 0
                                   THEN retrier.max_retries + 1 ELSE 0
    /\ \A k \in 1..(Len(retrier.invocations) - 1) : Failed(retrier.invocations[k])
    /\ (RetrierAt("done") /\ retrier.invocations # <<>>) =>
          /\ LastInvocation.outcome = "returned"
                => retrier.result = LastInvocation
          /\ (LastInvocation.outcome = "raised" /\ ~Listed(LastInvocation))
                => /\ retrier.result.outcome = "raised"
                   /\ retrier.result.exception = LastInvocation.exception
          /\ Failed(LastInvocation)
                => /\ Len(retrier.invocations) = retrier.max_retries + 1
                   /\ retrier.result.outcome = "raised"
                   /\ retrier.result.exception = LastInvocation.exception
                   /\ retrier.result.exception.attempt = retrier.max_retries
    /\ (RetrierAt("loop") /\ retrier.invocations # <<>>) => Failed(LastInvocation)

\* max_retries = 2: three invocations raised listed exceptions of different
\* types, and the call raised the third.
C38_Witness ==
    /\ RetrierAt("done")
    /\ retrier.max_retries = 2
    /\ Len(retrier.invocations) = 3
    /\ retrier.invocations[1].exception.type = "ConnectionError"
    /\ retrier.invocations[2].exception.type = "Timeout"
    /\ retrier.result = Invocation("raised", "<None>", Raised("HTTPError", 2))
    /\ retrier.sleeps = <<1, 2>>

(***************************************************************************)
(* Properties of the file paths of execute_edits, checked under SpecPaths. *)
(***************************************************************************)
InsideWorkingCopy(file) ==
    IsPrefix(Resolve(LocalPath), file) /\ file # Resolve(LocalPath)

\* C40: every file execute_edits writes, creates or deletes lies inside the
\* working copy directory of the context, for every file path an
\* instruction can carry, absolute paths and paths with '..' included.
C40_TouchedFilesInsideWorkingCopy ==
    \A k \in 1..Len(path_writer.touched) :
        path_writer.touched[k].operation # "none"
            => InsideWorkingCopy(path_writer.touched[k].file)

(***************************************************************************)
(* Properties of the context cache, checked under SpecCache and            *)
(* SpecConcurrent.                                                         *)
(***************************************************************************)
\* This step is a call of analyze_repository(url).
AnalyzeCall(url) ==
    /\ ncalls' = ncalls + 1
    /\ last_call'.op = "analyze"
    /\ last_call'.url = url

\* C7: once analyze_repository(url) has returned a context, every later
\* analyze_repository(url) returns that same stored context and parses no
\* URL, fetches no metadata, clones and scans nothing (with or without a
\* cleanup in between).
C7_SecondAnalyzeReturnsCachedContext ==
    [][\A url \in Urls :
          (AnalyzeCall(url) /\ returned_for[url] # {}) =>
              /\ last_call'.outcome = "returned"
              /\ returned_for[url] = {last_call'.context}
              /\ last_call'.context = context_cache[CacheKey(url)]
              /\ UNCHANGED <<service_calls, mkdtemp_count, temp_dirs, context_cache,
                             builds>>]_vars

\* Two consecutive analyze calls of one url: one build, then a hit.
C7_Witness ==
    /\ ncalls = 2
    /\ last_call.op = "analyze" /\ last_call.outcome = "returned"
    /\ builds[last_call.url] = 1
    /\ service_calls = [parse |-> 1, info |-> 1, clone |-> 1, scan |-> 1]
    /\ returned_for[last_call.url] = {last_call.context}

\* C8: cleanup removes the working copy and invalidates the cache entry, so
\* that every context analyze_repository returns, after any sequence of
\* analyze and cleanup calls, refers to a working copy that exists.
C8_ReturnedWorkingCopyExists ==
    (last_call.op = "analyze" /\ last_call.outcome = "returned")
        => last_call.context.temp_dir \in temp_dirs

\* C9: requests that call analyze_repository for one URL concurrently, with
\* no cache entry for it, clone the repository at most once and all receive
\* the same RepositoryContext.
C9_ConcurrentMissesBuildOnce ==
    \A url \in Urls :
        /\ builds[url] <= 1
        /\ Cardinality(returned_for[url]) <= 1

\* C34: when a step of analyze_repository fails (parsing the URL, fetching
\* the metadata, cloning, scanning) the call raises and leaves the context
\* cache as it was, with no entry for the URL; and every call for a URL the
\* cache has no entry for starts the build again, by parsing the URL.
C34_FailedBuildLeavesCacheUnchanged ==
    [][/\ (last_call'.op = "analyze" /\ last_call'.outcome = "raised")
            => /\ context_cache' = context_cache
               /\ CacheKey(last_call'.url) \notin DOMAIN context_cache'
               /\ builds' = builds /\ returned_for' = returned_for
       /\ (/\ last_call.op = "analyze" /\ last_call.outcome = "raised"
           /\ last_call'.op = "analyze" /\ last_call'.url = last_call.url)
            => /\ service_calls'.parse = service_calls.parse + 1
               /\ last_call'.outcome = "returned"
                    => /\ builds'[last_call'.url] = builds[last_call'.url] + 1
                       /\ service_calls'.scan = service_calls.scan + 1]_vars

\* Two builds that raised in the scans, after mkdtemp and the clone: two
\* directories made, nothing cached, no context built or returned.
C34_Witness ==
    /\ ncalls = 2
    /\ last_call.op = "analyze" /\ last_call.outcome = "raised"
    /\ service_calls = [parse |-> 2, info |-> 2, clone |-> 2, scan |-> 2]
    /\ context_cache = <<>>
    /\ Cardinality(temp_dirs) = 2
    /\ \A url \in Urls : builds[url] = 0 /\ returned_for[url] = {}

\* C39: when requests on one repository URL share the cached
\* RepositoryContext, the cleanup at the end of one of them removes no
\* working copy that another request is executing instructions or
\* publishing from.
C39_CleanupSparesWorkingCopyInUse ==
    [][\A t \in Threads :
          threads[t].pc = "executing"
              => (threads[t].context.temp_dir \in temp_dirs
                    => \/ threads[t].context.temp_dir \in temp_dirs'
                       \/ threads'[t].pc = "idle")]_vars

====
